---- MODULE Spec2Model ----
(***************************************************************************)
(* Model of the project workbench core of open-lovable.                    *)
(*                                                                         *)
(* Part 1: ProjectPersistence (src/lib/project-persistence.ts): one        *)
(* project snapshot kept in the browser's localStorage under a primary     *)
(* and a backup key.                                                       *)
(*                                                                         *)
(* Part 2: ErrorMonitor (src/lib/error-monitor.ts), which classifies an    *)
(* error text by an ordered list of regular expressions and proposes a     *)
(* fix; the auto-fix route (src/unnamed/part_001), which patches a file;   *)
(* and ErrorHandler (src/components/code-editor.tsx), which listens for    *)
(* errors in the page and posts the proposed fixes to the route.           *)
(*                                                                         *)
(* Part 3: SandboxWarning (src/unnamed/part_000), which counts down the    *)
(* lifetime of a sandbox from a start time kept in sessionStorage.         *)
(*                                                                         *)
(* Part 4: the restore-project route (src/unnamed/part_003) and the        *)
(* scrape-url-enhanced route (src/app/api/scrape-url-enhanced/route.ts),   *)
(* each with the external APIs it awaits.                                  *)
(*                                                                         *)
(* JavaScript objects are modelled as records whose DOMAIN is the set of   *)
(* keys the object has: a property that is undefined is a key that is      *)
(* absent, which is also what JSON.stringify makes of it.                  *)
(*                                                                         *)
(* Specifications:                                                         *)
(*   Spec         the operations in one JavaScript context, storage writes *)
(*                succeed, one slot may be cleared behind the program      *)
(*   SpecCorrupt  Spec, and one slot may become unreadable                 *)
(*   SpecFaulty   the operations where a write or JSON.stringify may throw *)
(*   SpecTabs     saveFiles running in two tabs that share localStorage    *)
(*   SpecClassify detectError, autoFix and getErrorType on one monitor     *)
(*   SpecRoute    the auto-fix route posted the plans the monitor proposes *)
(*   SpecHandler  ErrorHandler in a page, its requests and the route       *)
(*   SpecMonitor  SandboxWarning, page reloads and the wall clock          *)
(*   SpecMonitorFair   SpecMonitor where the timer and the clock go on     *)
(*   SpecMonitorStore  SandboxWarning beside saves and clears of the store *)
(*   SpecRecover       the two routes; an API answers, rejects or is silent *)
(*   SpecRecoverFair   SpecRecover where a call that can settle does so    *)
(***************************************************************************)
EXTENDS Naturals, Sequences, FiniteSets, TLC

(* ------------------------------ bounds --------------------------------- *)

\* Longest file list handed to saveFiles.
MaxFiles == 1
\* The wall clock runs from 0 to MaxTime.
MaxTime == 1
\* Storage failures in one run of the failure specification.
MaxFaults == 1

TabIds == {"tab1", "tab2"}

(* ------------------------------ values --------------------------------- *)

\* interface ProjectFile
ProjectFile(p, c) == [path |-> p, content |-> c, type |-> "text"]

\* Two versions of file a, one of file b.
AllFiles == {ProjectFile("a", "1"), ProjectFile("a", "2"), ProjectFile("b", "1")}

SeqsUpTo(S, n) == UNION {[1..k -> S] : k \in 0..n}

Range(s) == {s[i] : i \in DOMAIN s}

PathsOf(files) == {files[i].path : i \in DOMAIN files}

NoDuplicates(s) == \A i, j \in DOMAIN s : s[i] = s[j] => i = j

NoDuplicatePaths(files) ==
    \A i, j \in DOMAIN files : files[i].path = files[j].path => i = j

\* new Date(): a Date object holding the clock's value.
NewDate(t) == [type |-> "Date", ms |-> t]

\* Date.prototype.toISOString(): a string, no longer a Date.
ToISOString(d) == [type |-> "string", iso |-> d.ms]

\* What localStorage.getItem returns for a key that holds nothing.
NoItem == [kind |-> "null"]

\* A stored string that is not JSON.
Garbage == [kind |-> "garbage"]

\* JSON.stringify(obj): the text of obj.  The text of an object is modelled
\* by the object it denotes; keys whose value is undefined are not in it.
JSONStringify(obj) == [kind |-> "json", doc |-> obj]

\* JSON.parse(text): throws a SyntaxError unless text is JSON.
JSONParse(text) ==
    IF text.kind = "json"
    THEN [threw |-> FALSE, value |-> text.doc]
    ELSE [threw |-> TRUE]

\* The two results of loadProject(): null, or the parsed state.
Null == [isNull |-> TRUE]
Some(s) == [isNull |-> FALSE, state |-> s]

STORAGE_KEY == "lovable_project_state"
BACKUP_KEY == "lovable_project_backup"
Keys == {STORAGE_KEY, BACKUP_KEY}

\* typeof window !== 'undefined': the model is of the class in a browser.
\* On the server every method returns at its first line and stores nothing.
HasWindow == TRUE

(* ------------------------------ state ---------------------------------- *)

VARIABLES
    localStorage,   \* [Keys -> item]: window.localStorage
    now,            \* the wall clock (Date.now())
    faultsLeft,     \* how many more times a write to storage may throw
    tabs,           \* per browser tab: its position inside saveFiles
    damaged,        \* the slot the environment damaged since the last
                    \* completed save ("none": no slot)
    op,             \* history: the operation that ran last
    arg,            \* history: its arguments
    ret,            \* history: how it ended
    kept,           \* history: paths stored by saveFiles since the last
                    \* clear / save / import
    held,           \* history: paths stored by any save since the snapshot
                    \* was last replaced (clear / save / import)
    subject,        \* history: the error text whose classification is watched
    lastIndex,      \* ErrorMonitor: lastIndex of each rule's RegExp object
    fs,             \* the server's files: [path -> content or NoFile]
    mounted,        \* ErrorHandler: is the component mounted
    hooks,          \* ErrorHandler: wrappers now installed on console.error
    errors,         \* ErrorHandler: the surfaced list (useState errors)
    network,        \* /api/auto-fix requests and responses in flight
    events,         \* history: error events raised so far
    issued,         \* history: the apply requests issued, with their event
    sessionStorage, \* [sandboxId -> item]: window.sessionStorage
    warning,        \* SandboxWarning: the component's state
    recovery,       \* has onCreateNewSandbox been called
    observed,       \* history: per sandboxId, the last observation
    firstStart,     \* history: per sandboxId, the clock at first observation
    timers,         \* the window's live setInterval timers
    shownFor,       \* history: the sandboxId whose timer last set the
                    \* component's state (NoSandbox: none since the mount)
    restore,        \* the restore-project route: its position and history
    scrape          \* the scrape-url-enhanced route: its position

\* The variables of ProjectPersistence.
storeVars == <<localStorage, faultsLeft, tabs, damaged, kept, held>>

\* The variables of ErrorMonitor, ErrorHandler and the auto-fix route.
fixVars ==
    <<subject, lastIndex, fs, mounted, hooks, errors, network, events, issued>>

\* The variables of SandboxWarning.
monitorVars ==
    <<sessionStorage, warning, recovery, observed, firstStart, timers,
      shownFor>>

\* The variables of the restore-project and scrape-url-enhanced routes.
recoverVars == <<restore, scrape>>

vars == <<storeVars, now, op, arg, ret, fixVars, monitorVars, recoverVars>>

NoArg == [none |-> TRUE]

(* --------------------------- ProjectPersistence ------------------------ *)

\* loadProject(): ProjectState | null
LoadProject(ls) ==
    IF ~HasWindow THEN Null
    ELSE
    LET stored == ls[STORAGE_KEY] IN
    IF stored.kind = "null"
    THEN LET backup == ls[BACKUP_KEY] IN
         IF backup.kind # "null"
         THEN (IF JSONParse(backup).threw
               THEN Null                        \* catch: return null
               ELSE Some(JSONParse(backup).value))
         ELSE Null
    ELSE IF JSONParse(stored).threw
         THEN Null                              \* catch: return null
         ELSE Some(JSONParse(stored).value)

\* hasProject(): boolean
HasProject(ls) ==
    HasWindow /\ (ls[STORAGE_KEY].kind # "null" \/ ls[BACKUP_KEY].kind # "null")

\* Mutant: the spread comes last, so the caller's lastSaved survives.
SerializedKeepsLastSaved(state, t) ==
    JSONStringify(state @@ [lastSaved |-> ToISOString(NewDate(t))])

\* The text saveProject writes: {...state, lastSaved: new Date().toISOString()}
Serialized(state, t) ==
    JSONStringify([lastSaved |-> ToISOString(NewDate(t))] @@ state)

\* Mutant: saveProject without its second setItem (no backup copy).
SaveProjectNoBackup(ls, state, t, fault) ==
    IF fault \in {"serialize", "primary"}
    THEN [storage |-> ls, failed |-> TRUE]
    ELSE [storage |-> [ls EXCEPT ![STORAGE_KEY] = Serialized(state, t)],
          failed |-> fault = "backup"]

\* saveProject(state): the storage afterwards and whether the catch block
\* reported a failure.  fault names the statement that throws, if any:
\* "serialize" (JSON.stringify), "primary" or "backup" (the setItem).
SaveProject(ls, state, t, fault) ==
    IF ~HasWindow THEN [storage |-> ls, failed |-> FALSE]
    ELSE IF fault = "serialize" THEN [storage |-> ls, failed |-> TRUE]
    ELSE IF fault = "primary" THEN [storage |-> ls, failed |-> TRUE]
    ELSE IF fault = "backup"
    THEN [storage |-> [ls EXCEPT ![STORAGE_KEY] = Serialized(state, t)],
          failed |-> TRUE]
    ELSE [storage |-> [ls EXCEPT ![STORAGE_KEY] = Serialized(state, t),
                                 ![BACKUP_KEY] = Serialized(state, t)],
          failed |-> FALSE]

\* Map.prototype.set(file.path, file) on a Map kept as the sequence of its
\* values in insertion order: an existing key keeps its place.
MapSet(m, file) ==
    IF \E i \in DOMAIN m : m[i].path = file.path
    THEN [i \in DOMAIN m |-> IF m[i].path = file.path THEN file ELSE m[i]]
    ELSE Append(m, file)

\* files.forEach(file => fileMap.set(file.path, file))
RECURSIVE MapSetAll(_, _)
MapSetAll(m, files) ==
    IF files = <<>> THEN m
    ELSE MapSetAll(MapSet(m, Head(files)), Tail(files))

\* [...new Set(s)]: the first occurrence of each element, in order.
RECURSIVE SetSpread(_)
SetSpread(s) ==
    IF s = <<>> THEN <<>>
    ELSE LET front == SetSpread(SubSeq(s, 1, Len(s) - 1))
             last == s[Len(s)]
         IN IF last \in Range(front) THEN front ELSE Append(front, last)

\* The state saveFiles starts from when loadProject() returns null.
EmptyState(t) ==
    [files |-> <<>>, packages |-> <<>>, projectName |-> "PLC Karting",
     lastSaved |-> NewDate(t)]

\* Mutant: the two forEach loops swapped, so a stored file beats a new one.
MergedStateExistingWins(existingState, files, packages, t) ==
    [files |-> MapSetAll(MapSetAll(<<>>, files), existingState.files),
     packages |-> SetSpread(existingState.packages \o packages),
     lastSaved |-> NewDate(t)] @@ existingState

\* The state saveFiles hands to saveProject.
MergedState(existingState, files, packages, t) ==
    [files |-> MapSetAll(MapSetAll(<<>>, existingState.files), files),
     packages |-> SetSpread(existingState.packages \o packages),
     lastSaved |-> NewDate(t)] @@ existingState

\* saveFiles(files, packages), given what its loadProject() returned:
\* spreading existingState.packages throws a TypeError when the stored
\* object has no packages.
SaveFilesFrom(loaded, ls, files, packages, t, fault) ==
    LET existingState == IF loaded.isNull THEN EmptyState(t) ELSE loaded.state
    IN IF "packages" \notin DOMAIN existingState
       THEN [storage |-> ls, outcome |-> "threw"]
       ELSE LET saved == SaveProject(ls,
                             MergedState(existingState, files, packages, t),
                             t, fault)
            IN [storage |-> saved.storage,
                outcome |-> IF saved.failed THEN "failed" ELSE "ok"]

SaveFiles(ls, files, packages, t, fault) ==
    SaveFilesFrom(LoadProject(ls), ls, files, packages, t, fault)

\* clearProject()
ClearProject(ls) ==
    IF ~HasWindow THEN ls
    ELSE [k \in Keys |-> NoItem]

\* Mutant: the validation also refuses an empty files array
\* (!state.files.length).
ImportProjectRefusesEmpty(ls, blob, t, fault) ==
    IF blob.kind # "object" \/ blob.filesType # "array" \/ blob.obj.files = <<>>
    THEN [storage |-> ls, result |-> FALSE]
    ELSE [storage |-> SaveProject(ls, blob.obj, t, fault).storage,
          result |-> TRUE]

\* importProject(file): the storage afterwards and the boolean it resolves
\* to.  blob.kind is what the file holds: "unreadable" (file.text() rejects),
\* "garbage" (JSON.parse throws), "null" (state.files throws a TypeError) or
\* "object"; blob.filesType is the JavaScript type of state.files.
\* saveProject catches its own failures, so an accepted import resolves to
\* true whatever the writes did.
ImportProject(ls, blob, t, fault) ==
    IF blob.kind = "unreadable" THEN [storage |-> ls, result |-> FALSE]
    ELSE IF blob.kind = "garbage" THEN [storage |-> ls, result |-> FALSE]
    ELSE IF blob.kind = "null" THEN [storage |-> ls, result |-> FALSE]
    ELSE IF blob.filesType \in {"undefined", "null"}      \* !state.files
    THEN [storage |-> ls, result |-> FALSE]
    ELSE IF blob.filesType # "array"          \* !Array.isArray(state.files)
    THEN [storage |-> ls, result |-> FALSE]
    ELSE [storage |-> SaveProject(ls, blob.obj, t, fault).storage,
          result |-> TRUE]

(* ------------------------------ inputs --------------------------------- *)

FileLists == SeqsUpTo(AllFiles, MaxFiles)
\* The package lists handed to saveFiles.
PkgLists == {<<>>, <<"q">>, <<"p", "q">>}

\* The states a caller hands to saveProject: typed ProjectState values that
\* keep the snapshot invariant (unique paths, unique packages); sandboxId is
\* optional and lastSaved is a Date.
SnapshotInputs ==
    {[files |-> <<ProjectFile("a", "1")>>, packages |-> <<"p">>,
      projectName |-> "Demo", lastSaved |-> NewDate(0)],
     [files |-> <<ProjectFile("b", "1"), ProjectFile("a", "2")>>,
      packages |-> <<"q", "p">>, projectName |-> "Demo",
      lastSaved |-> NewDate(0), sandboxId |-> "sb1"]}

\* The files of a user: what importProject may be handed.
ImportBlobs ==
    {[kind |-> "unreadable"], [kind |-> "garbage"], [kind |-> "null"],
     [kind |-> "object", filesType |-> "undefined",
      obj |-> [projectName |-> "Imported"]],
     [kind |-> "object", filesType |-> "string",
      obj |-> [projectName |-> "Imported"]],
     [kind |-> "object", filesType |-> "array",
      obj |-> [files |-> <<>>]],
     [kind |-> "object", filesType |-> "array",
      obj |-> [files |-> <<ProjectFile("a", "1"), ProjectFile("a", "2")>>,
               packages |-> <<"p", "p">>]],
     [kind |-> "object", filesType |-> "array",
      obj |-> [files |-> <<ProjectFile("b", "1")>>, packages |-> <<"q">>,
               projectName |-> "Imported",
               lastSaved |-> ToISOString(NewDate(0))]]}

\* What may throw inside saveProject: nothing, a setItem (quota exceeded),
\* or JSON.stringify on a state a caller built (a cycle, a BigInt).
WriteFaults ==
    IF faultsLeft > 0 THEN {"none", "primary", "backup"} ELSE {"none"}

SaveFaults ==
    IF faultsLeft > 0 THEN WriteFaults \cup {"serialize"} ELSE {"none"}

FaultsAfter(fault) == IF fault = "none" THEN faultsLeft ELSE faultsLeft - 1

IdleTab == [pc |-> "idle"]

(* ------------------------------ ErrorMonitor --------------------------- *)

\* Part 2: ErrorMonitor (src/lib/error-monitor.ts), the ErrorHandler
\* component (src/components/code-editor.tsx) and the /api/auto-fix route
\* (src/unnamed/part_001).
\*
\* An error text is a sequence of fragments, read as joined by spaces.  A
\* regular expression is modelled by its alternatives; an alternative is a
\* sequence of fragment sets that must occur in this order on one line
\* (".*" between them does not cross a line break).

\* Longest error text, in fragments.
MaxTextLen == 2

NL == "\n"

\* "<fence>" stands for three backquotes.
PostcssUnknownWord == "[postcss] /app/globals.css:1:1: Unknown word"
StreamFrame == "at POST (app/api/generate-ai-code-stream/route.ts:10:5)"

Fragments ==
    {PostcssUnknownWord, "<fence>css",
     "hydrated but some attributes", "didn't match",
     "WritableStream is closed", "Invalid state", StreamFrame,
     "Invalid URL",
     "Cannot find module", "'react'",
     "Unexpected token", "at app/page.tsx",
     NL}

Texts == SeqsUpTo(Fragments, MaxTextLen)

\* new RegExp without flags: test() and match() always search from 0.
RegExp(alts) == [global |-> FALSE, alts |-> alts]

\* The same expression with the g flag: test() searches from lastIndex.
RegExpG(alts) == [global |-> TRUE, alts |-> alts]

\* Mutant: the rule list where the patterns carry the g flag.
ErrorPatternsGlobal ==
    <<[type |-> "css",
       pattern |-> RegExpG({<<{PostcssUnknownWord}, {"<fence>css"}>>})],
      [type |-> "hydration",
       pattern |-> RegExpG({<<{"hydrated but some attributes"},
                              {"didn't match"}>>})],
      [type |-> "runtime",
       pattern |-> RegExpG({<<{"WritableStream is closed"}>>,
                            <<{"Invalid state"},
                              {"WritableStream is closed"}>>})],
      [type |-> "runtime",
       pattern |-> RegExpG({<<{"Firecrawl API error"}, {"Invalid url"}>>,
                            <<{"Invalid URL"}>>,
                            <<{"Invalid URL format"}>>})],
      [type |-> "build",
       pattern |-> RegExpG({<<{"Cannot find module"}>>,
                            <<{"Module not found"}>>})],
      [type |-> "syntax",
       pattern |-> RegExpG({<<{"Unexpected token"}>>,
                            <<{"SyntaxError"}>>})]>>

\* private errorPatterns: ErrorPattern[], in declaration order.
ErrorPatterns ==
    <<[type |-> "css",
       pattern |-> RegExp({<<{PostcssUnknownWord}, {"<fence>css"}>>})],
      [type |-> "hydration",
       pattern |-> RegExp({<<{"hydrated but some attributes"},
                             {"didn't match"}>>})],
      [type |-> "runtime",
       pattern |-> RegExp({<<{"WritableStream is closed"}>>,
                           <<{"Invalid state"},
                             {"WritableStream is closed"}>>})],
      [type |-> "runtime",
       pattern |-> RegExp({<<{"Firecrawl API error"}, {"Invalid url"}>>,
                           <<{"Invalid URL"}>>,
                           <<{"Invalid URL format"}>>})],
      [type |-> "build",
       pattern |-> RegExp({<<{"Cannot find module"}>>,
                           <<{"Module not found"}>>})],
      [type |-> "syntax",
       pattern |-> RegExp({<<{"Unexpected token"}>>,
                           <<{"SyntaxError"}>>})]>>

Rules == 1..6

\* The positions where a match of alt[1..k], whose k-th part is at p, can end.
RECURSIVE AltEnds(_, _, _, _)
AltEnds(alt, k, text, p) ==
    IF k = Len(alt) THEN {p}
    ELSE UNION {AltEnds(alt, k + 1, text, q) :
                  q \in {q \in (p + 1)..Len(text) :
                           /\ text[q] \in alt[k + 1]
                           /\ \A m \in (p + 1)..(q - 1) : text[m] # NL}}

\* The ends of the matches of re that start at fragment i.
MatchEnds(re, text, i) ==
    UNION {IF text[i] \in alt[1] THEN AltEnds(alt, 1, text, i) ELSE {} :
             alt \in re.alts}

\* RegExp.prototype.exec from fragment `from` on: the leftmost match, or none.
RegExpExec(re, text, from) ==
    LET starts == {i \in (from + 1)..Len(text) : MatchEnds(re, text, i) # {}}
    IN  IF starts = {} THEN [found |-> FALSE]
        ELSE LET i == CHOOSE i \in starts : \A j \in starts : i <= j
                 ends == MatchEnds(re, text, i)
             IN  [found |-> TRUE,
                  end |-> CHOOSE e \in ends : \A f \in ends : f <= e]

\* RegExp.prototype.test: without the g flag lastIndex is neither read nor
\* written; with it the search starts at lastIndex, which is then moved to
\* the end of the match, or back to 0 when there is none.
RegExpTest(re, li, text) ==
    LET m == RegExpExec(re, text, IF re.global THEN li ELSE 0) IN
    [result |-> m.found,
     lastIndex |-> IF re.global THEN (IF m.found THEN m.end ELSE 0) ELSE li]

\* Mutant: the loop does not stop at the first match; the last match wins.
RECURSIVE DetectErrorLastFrom(_, _, _, _)
DetectErrorLastFrom(i, li, errorMessage, best) ==
    IF i > Len(ErrorPatterns) THEN [rule |-> best, lastIndex |-> li]
    ELSE LET t == RegExpTest(ErrorPatterns[i].pattern, li[i], errorMessage)
         IN  DetectErrorLastFrom(i + 1, [li EXCEPT ![i] = t.lastIndex],
                                 errorMessage,
                                 IF t.result THEN i ELSE best)

DetectErrorLastMatch(li, errorMessage) ==
    DetectErrorLastFrom(1, li, errorMessage, 0)

\* for (const pattern of this.errorPatterns) from the i-th pattern on.
\* Rule 0 is the return value null.
RECURSIVE DetectErrorFrom(_, _, _)
DetectErrorFrom(i, li, errorMessage) ==
    IF i > Len(ErrorPatterns) THEN [rule |-> 0, lastIndex |-> li]
    ELSE LET t == RegExpTest(ErrorPatterns[i].pattern, li[i], errorMessage)
             li2 == [li EXCEPT ![i] = t.lastIndex]
         IN  IF t.result THEN [rule |-> i, lastIndex |-> li2]
             ELSE DetectErrorFrom(i + 1, li2, errorMessage)

\* detectError(errorMessage): ErrorPattern | null
DetectError(li, errorMessage) == DetectErrorFrom(1, li, errorMessage)

\* getErrorType(errorMessage): string
GetErrorType(li, errorMessage) ==
    LET d == DetectError(li, errorMessage) IN
    [type |-> IF d.rule = 0 THEN "unknown" ELSE ErrorPatterns[d.rule].type,
     lastIndex |-> d.lastIndex]

\* The return value null of an autoFix producer.
NullFix == [isNull |-> TRUE]

\* interface AutoFix
AutoFix(file, fix, explanation, manual) ==
    [isNull |-> FALSE, file |-> file, fix |-> fix,
     explanation |-> explanation, manual |-> manual]

\* String.prototype.match with a pattern that captures: the capture taken
\* from the first fragment in which the pattern occurs.
FirstCapture(text, Capture(_)) ==
    LET hits == {i \in DOMAIN text : Capture(text[i]) # ""} IN
    IF hits = {} THEN ""
    ELSE Capture(text[CHOOSE i \in hits : \A j \in hits : i <= j])

\* /\/([^:]+\.css)/
CssFileIn(f) == IF f = PostcssUnknownWord THEN "app/globals.css" ELSE ""

\* /at.*\(([^:]+\.ts):(\d+):(\d+)\)/
TsFrameIn(f) ==
    IF f = StreamFrame THEN "app/api/generate-ai-code-stream/route.ts"
    ELSE ""

\* /['"]([^'"]+)['"]/ : the text between the first two quote characters.
QuotedIn(text) ==
    LET quotes == {i \in DOMAIN text : text[i] \in {"'react'", "didn't match"}}
    IN  IF quotes = {} THEN ""
        ELSE LET i == CHOOSE i \in quotes : \A j \in quotes : i <= j IN
             IF text[i] = "'react'" THEN "react"
             ELSE IF \E j \in quotes : j > i THEN "t match "
             ELSE ""

\* /at\s+([^:]+\.(jsx?|tsx?))/
SourceFileIn(f) ==
    IF f = "at app/page.tsx" THEN "app/page.tsx"
    ELSE IF f = StreamFrame
         THEN "POST (app/api/generate-ai-code-stream/route.ts"
    ELSE ""

\* `npm install ${moduleMatch[1]}`
NpmInstall(name) ==
    IF name = "react" THEN "npm install react" ELSE "npm install t match "

\* `Missing dependency: ${moduleMatch[1]}`
MissingDependency(name) ==
    IF name = "react" THEN "Missing dependency: react"
    ELSE "Missing dependency: t match "

\* errorPatterns[rule].autoFix(error): AutoFix | null
Producer(rule, error) ==
    CASE rule = 1 ->
           LET fileMatch == FirstCapture(error, CssFileIn) IN
           IF fileMatch = "" THEN NullFix
           ELSE AutoFix(fileMatch,
                        "Remove markdown code blocks from CSS file",
                        "CSS files should not contain markdown syntax",
                        FALSE)
      [] rule = 2 ->
           AutoFix("app/layout.tsx",
                   "Add suppressHydrationWarning to affected elements",
                   "Browser extensions or client-only code", FALSE)
      [] rule = 3 ->
           LET fileMatch == FirstCapture(error, TsFrameIn) IN
           IF fileMatch = "" THEN NullFix
           ELSE AutoFix(fileMatch,
                        "Add proper stream state checks before closing",
                        "Stream was already closed or locked", FALSE)
      [] rule = 4 ->
           AutoFix("app/api/scrape-url-enhanced/route.ts",
                   "Extract and validate URL from user input",
                   "URL extraction improved", FALSE)
      [] rule = 5 ->
           LET moduleMatch == QuotedIn(error) IN
           IF moduleMatch = "" THEN NullFix
           ELSE AutoFix("package.json", NpmInstall(moduleMatch),
                        MissingDependency(moduleMatch), TRUE)
      [] rule = 6 ->
           LET fileMatch == FirstCapture(error, SourceFileIn) IN
           IF fileMatch = "" THEN NullFix
           ELSE AutoFix(fileMatch, "Review and fix syntax error",
                        "Syntax error detected in file", TRUE)

\* Mutant: when the producer of the first matching rule returns null, the
\* later rules are tried.
RECURSIVE AutoFixFallsFrom(_, _, _)
AutoFixFallsFrom(i, li, errorMessage) ==
    IF i > Len(ErrorPatterns) THEN [fix |-> NullFix, lastIndex |-> li]
    ELSE LET t == RegExpTest(ErrorPatterns[i].pattern, li[i], errorMessage)
             li2 == [li EXCEPT ![i] = t.lastIndex]
         IN  IF t.result /\ ~Producer(i, errorMessage).isNull
             THEN [fix |-> Producer(i, errorMessage), lastIndex |-> li2]
             ELSE AutoFixFallsFrom(i + 1, li2, errorMessage)

AutoFixFallsThrough(li, errorMessage) == AutoFixFallsFrom(1, li, errorMessage)

\* async autoFix(errorMessage): Promise<AutoFix | null>
AutoFixOf(li, errorMessage) ==
    LET d == DetectError(li, errorMessage) IN
    [fix |-> IF d.rule = 0 THEN NullFix ELSE Producer(d.rule, errorMessage),
     lastIndex |-> d.lastIndex]

\* The ErrorMonitor as constructed: every lastIndex is 0.
NewLastIndex == [r \in Rules |-> 0]

(* --------------------------- the auto-fix route ------------------------ *)

\* Longest file content of the server's files, in fragments.
MaxContentLen == 2

\* A file content is a sequence of fragments, read as concatenated.
BodyTag == "<body className={inter.className}>"
BodyTagSuppressed == "<body className={inter.className} suppressHydrationWarning>"
\* "<fence>" stands for three backquotes, "<NL>" for the line break.
FenceOpen == "<fence>css<NL>"
FenceClose == "<NL><fence>"
WriterClose == "await writer.close();"
GuardedClose == "try { if (writer && !stream.locked) { await writer.close(); } }"
TargetUrl == "const targetUrl = url;"
TargetUrlValidated == "const targetUrl = validateUrl(url);"
ValidateUrlDecl == "function validateUrl(url: string): string {...}\n"

LAYOUT_FILE == "app/layout.tsx"
CSS_FILE == "app/globals.css"
STREAM_FILE == "app/api/generate-ai-code-stream/route.ts"
SCRAPE_FILE == "app/api/scrape-url-enhanced/route.ts"

\* The files a remediation plan of the rule list can name on the server.
ServerFiles == {LAYOUT_FILE, CSS_FILE, STREAM_FILE, SCRAPE_FILE}

\* The fragments that occur in each of them.
FragmentsOf(file) ==
    CASE file = LAYOUT_FILE -> {BodyTag, BodyTagSuppressed, "<html>"}
      [] file = CSS_FILE -> {FenceOpen, FenceClose, "body {}"}
      [] file = STREAM_FILE -> {WriterClose, GuardedClose}
      [] file = SCRAPE_FILE -> {TargetUrl, TargetUrlValidated, ValidateUrlDecl}

NoFile == [exists |-> FALSE]
FileOf(content) == [exists |-> TRUE, content |-> content]

\* fs.readFile(path.join(process.cwd(), file)): a file that is not there
\* makes it throw (ENOENT).
ReadFile(files, file) == IF file \in DOMAIN files THEN files[file] ELSE NoFile

\* String.prototype.includes / endsWith on the strings of a plan.
StrIncludes(s, sub) ==
    <<s, sub>> \in
      {<<"Add suppressHydrationWarning to affected elements",
         "suppressHydrationWarning">>,
       <<"Remove markdown code blocks from CSS file", "Remove markdown">>,
       <<"Add proper stream state checks before closing",
         "stream state checks">>,
       <<STREAM_FILE, "generate-ai-code-stream">>,
       <<"POST (app/api/generate-ai-code-stream/route.ts",
         "generate-ai-code-stream">>,
       <<SCRAPE_FILE, "scrape-url-enhanced">>,
       <<"Validate and format URL", "Validate and format URL">>}

EndsWithCss(file) == file = CSS_FILE

\* content.includes(word) for the words the route looks for.
ContentIncludes(content, word) ==
    \E i \in DOMAIN content :
        CASE word = "suppressHydrationWarning" ->
               content[i] = BodyTagSuppressed
          [] word = "!stream.locked" -> content[i] = GuardedClose
          [] word = "validateUrl" ->
               content[i] \in {TargetUrlValidated, ValidateUrlDecl}

\* content.replace(/from/, to): the first occurrence only.
ReplaceFirst(content, from, to) ==
    LET hits == {i \in DOMAIN content : content[i] = from} IN
    IF hits = {} THEN content
    ELSE [content EXCEPT ![CHOOSE i \in hits : \A j \in hits : i <= j] = to]

\* content.replace(/from/g, to): every occurrence.
ReplaceAll(content, from, to) ==
    [i \in DOMAIN content |-> IF content[i] = from THEN to ELSE content[i]]

\* content.replace(/^```css\n/, ''): only at the very start.
StripFenceOpen(content) ==
    IF content # <<>> /\ Head(content) = FenceOpen THEN Tail(content)
    ELSE content

\* content.replace(/\n```$/, ''): only at the very end.
StripFenceClose(content) ==
    IF content # <<>> /\ content[Len(content)] = FenceClose
    THEN SubSeq(content, 1, Len(content) - 1)
    ELSE content

\* NextResponse.json(body) and NextResponse.json(body, { status: 500 }).
\* `wrote` records whether fs.writeFile was called.
Response(files, status, success, wrote) ==
    [files |-> files, status |-> status, success |-> success, wrote |-> wrote]

\* A branch of POST once the file is read: write the new content when the
\* guard allows it, and report success.
Patched(files, file, guard, content) ==
    IF guard
    THEN Response([files EXCEPT ![file] = FileOf(content)], 200, TRUE, TRUE)
    ELSE Response(files, 200, TRUE, FALSE)

\* export async function POST(request) of /api/auto-fix.
Route(files, body) ==
    LET file == body.file
        fix == body.fix
        read == ReadFile(files, file)
        Failed == Response(files, 500, FALSE, FALSE)
    IN
    IF file = LAYOUT_FILE /\ StrIncludes(fix, "suppressHydrationWarning")
    THEN IF ~read.exists THEN Failed
         ELSE Patched(files, file,
                      ~ContentIncludes(read.content, "suppressHydrationWarning"),
                      ReplaceFirst(read.content, BodyTag, BodyTagSuppressed))
    ELSE IF EndsWithCss(file) /\ StrIncludes(fix, "Remove markdown")
    THEN IF ~read.exists THEN Failed
         ELSE Patched(files, file, TRUE,
                      StripFenceClose(StripFenceOpen(read.content)))
    ELSE IF /\ StrIncludes(file, "generate-ai-code-stream")
            /\ StrIncludes(fix, "stream state checks")
    THEN IF ~read.exists THEN Failed
         ELSE Patched(files, file,
                      ~ContentIncludes(read.content, "!stream.locked"),
                      ReplaceAll(read.content, WriterClose, GuardedClose))
    ELSE IF /\ StrIncludes(file, "scrape-url-enhanced")
            /\ StrIncludes(fix, "Validate and format URL")
    THEN IF ~read.exists THEN Failed
         ELSE Patched(files, file,
                      ~ContentIncludes(read.content, "validateUrl"),
                      <<ValidateUrlDecl>> \o
                        ReplaceAll(read.content, TargetUrl, TargetUrlValidated))
    ELSE Response(files, 200, FALSE, FALSE)

(* ------------------------------ ErrorHandler --------------------------- *)

\* External error events in one run.
MaxEvents == 1
\* Times the ErrorHandler component is mounted on one page.
MaxMounts == 2

\* The error texts the page raises in the run of ErrorHandler: two with a
\* plan the route has a branch for, one with a plan it has no branch for,
\* one with a manual plan.
HandlerTexts ==
    {<<PostcssUnknownWord, "<fence>css">>,
     <<"hydrated but some attributes", "didn't match">>,
     <<"Invalid URL">>,
     <<"Cannot find module", "'react'">>}

\* Error texts of every kind of plan.
ErrorTexts ==
    {<<PostcssUnknownWord, "<fence>css">>,
     <<"hydrated but some attributes", "didn't match">>,
     <<"WritableStream is closed", StreamFrame>>,
     <<"WritableStream is closed">>,
     <<"Invalid URL">>,
     <<"Cannot find module", "'react'">>,
     <<"Unexpected token", "at app/page.tsx">>,
     <<"didn't match">>}

\* event.reason of an unhandled rejection; NoReason is undefined.
NoReason == <<>>

\* event.reason?.toString() || 'Unknown error'
ReasonMessage(reason) == IF reason = NoReason THEN <<"Unknown error">> ELSE reason

\* What the browser's fetch rejects with when the request cannot be sent, as
\* console.error('Failed to apply auto-fix:', error) joins it.
FetchFailedMessage == <<"Failed to apply auto-fix:", "TypeError: Failed to fetch">>

\* Mutant: the manual flag is not looked at.
ShouldApplyAny(fix) == ~fix.isNull

\* if (fix && !fix.manual): the test before every applyAutoFix(fix).
ShouldApply(fix) == ~fix.isNull /\ ~fix.manual

\* An entry of the surfaced list.
ErrorEntry(message, fix) == [message |-> message, fix |-> fix]

\* applyAutoFix(fix) up to its await: fetch('/api/auto-fix', ...) is sent.
\* `event` is the error event the call descends from, `n` tells the requests
\* of one event apart.
Request(event, n, fix) ==
    [kind |-> "request", event |-> event, n |-> n, body |-> fix]

\* One listener (handleError, handleUnhandledRejection) on `message`:
\* what it adds to the list and whether it sends a request.
Listened(li, message, event) ==
    LET a == AutoFixOf(li, message) IN
    [lastIndex |-> a.lastIndex,
     entries |-> <<ErrorEntry(message, a.fix)>>,
     requests |-> IF ShouldApply(a.fix) THEN {Request(event, 1, a.fix)}
                  ELSE {}]

\* One wrapper of console.error whose autoFix gave `a`, around the wrappers
\* inside it: its .then adds the entry and sends the request.
WrapperAround(a, inner, message, event, n, isMounted) ==
    [lastIndex |-> inner.lastIndex,
     entries |-> (IF ~a.fix.isNull /\ isMounted
                  THEN <<ErrorEntry(message, a.fix)>> ELSE <<>>)
                 \o inner.entries,
     requests |-> inner.requests \cup
                  (IF ShouldApply(a.fix)
                   THEN {Request(event, n, a.fix)} ELSE {})]

\* console.error(...args) with `n` wrappers installed, the outermost first;
\* only the wrapper of the mounted component still has a list to add to.
RECURSIVE Wrapped(_, _, _, _, _)
WrappedInside(a, n, message, event, isMounted) ==
    WrapperAround(a, Wrapped(n - 1, a.lastIndex, message, event, FALSE),
                  message, event, n, isMounted)

Wrapped(n, li, message, event, isMounted) ==
    IF n = 0 THEN [lastIndex |-> li, entries |-> <<>>, requests |-> {}]
    ELSE WrappedInside(AutoFixOf(li, message), n, message, event, isMounted)

\* The history entries of a set of requests, the outermost wrapper's first.
RECURSIVE IssuedOf(_)
IssuedOf(requests) ==
    IF requests = {} THEN <<>>
    ELSE LET r == CHOOSE r \in requests : \A q \in requests : r.n >= q.n
         IN  <<[event |-> r.event, plan |-> r.body]>>
               \o IssuedOf(requests \ {r})

\* The server's files as deployed, before any fix.
FreshFiles ==
    [f \in ServerFiles |->
       CASE f = LAYOUT_FILE -> FileOf(<<"<html>", BodyTag>>)
         [] f = CSS_FILE -> FileOf(<<FenceOpen, "body {}", FenceClose>>)
         [] f = STREAM_FILE -> FileOf(<<WriterClose>>)
         [] f = SCRAPE_FILE -> FileOf(<<TargetUrl>>)]

NoFiles == [f \in ServerFiles |-> NoFile]

\* Part 2 at rest: what the other parts' specifications hold it at.
FixIdle ==
    /\ subject = <<>>
    /\ lastIndex = NewLastIndex
    /\ fs = NoFiles
    /\ mounted = FALSE
    /\ hooks = 0
    /\ errors = <<>>
    /\ network = {}
    /\ events = 0
    /\ issued = <<>>

(* ------------------------------ SandboxWarning ------------------------- *)

\* Part 3: the SandboxWarning component (src/unnamed/part_000).  Its clock
\* is Date.now(), in milliseconds.

SANDBOX_LIFETIME == 900000
WARNING_THRESHOLD == 120000

\* The instants at which the monitor specifications look at the clock.
Instants == {0, 1000, 780000, 781000, 900000, 901000}

SandboxIds == {"sb1", "sb2"}

\* The prop sandboxId when there is no sandbox (null).
NoSandbox == ""

\* `sandbox_start_${sandboxId}`
SandboxStartKey(sandboxId) == <<"sandbox_start_", sandboxId>>

SessionKeys == {SandboxStartKey(id) : id \in SandboxIds}

\* Number.prototype.toString(): the decimal digits of n, as stored.
NumberToString(n) == [kind |-> "text", digits |-> n]

\* parseInt(text) of such a string.
ParseInt(text) == text.digits

\* useState<number | null>: null, or a number of milliseconds.
NullTime == <<>>
Ms(n) == <<n>>

\* The first effect: !!localStorage.getItem('lovable_project_state')
BackupFlag(ls) == ls[STORAGE_KEY].kind # "null"

\* Mutant: the start time is taken from the clock at every mount.
StartTimeAlwaysNow(store, sandboxId, t) ==
    [startTime |-> t,
     store |-> [store EXCEPT ![SandboxStartKey(sandboxId)] = NumberToString(t)]]

\* The second effect up to setInterval: the start time of sandboxId, read
\* from sessionStorage, or taken from the clock and stored there.
StartTimeFor(store, sandboxId, t) ==
    LET savedStartTime == store[SandboxStartKey(sandboxId)] IN
    IF savedStartTime.kind # "null"
    THEN [startTime |-> ParseInt(savedStartTime), store |-> store]
    ELSE [startTime |-> t,
          store |-> [store EXCEPT ![SandboxStartKey(sandboxId)] =
                                    NumberToString(t)]]

\* Mutant: the callback reports the elapsed time as the time remaining.
ObserveCountsUp(t, startTime) ==
    LET elapsed == t - startTime
        remaining == SANDBOX_LIFETIME - elapsed
    IN  IF remaining <= 0
        THEN [state |-> "Expired", timeRemaining |-> elapsed,
              showWarning |-> TRUE, stop |-> TRUE]
        ELSE IF remaining <= WARNING_THRESHOLD
        THEN [state |-> "Warning", timeRemaining |-> elapsed,
              showWarning |-> TRUE, stop |-> FALSE]
        ELSE [state |-> "Active", timeRemaining |-> elapsed,
              showWarning |-> FALSE, stop |-> FALSE]

\* The setInterval callback at clock t: the branch taken, the two state
\* setters' values, and whether clearInterval is called.
Observe(t, startTime) ==
    LET elapsed == t - startTime
        remaining == SANDBOX_LIFETIME - elapsed
    IN  IF remaining <= 0
        THEN [state |-> "Expired", timeRemaining |-> 0,
              showWarning |-> TRUE, stop |-> TRUE]
        ELSE IF remaining <= WARNING_THRESHOLD
        THEN [state |-> "Warning", timeRemaining |-> remaining,
              showWarning |-> TRUE, stop |-> FALSE]
        ELSE [state |-> "Active", timeRemaining |-> remaining,
              showWarning |-> FALSE, stop |-> FALSE]

\* The timer that the second effect creates for sandboxId: its callback
\* closes over startTime.
Timer(sandboxId, startTime) == [sandboxId |-> sandboxId, startTime |-> startTime]

\* setInterval(callback, 1000)
SetInterval(ts, timer) == ts \cup {timer}

\* Mutant: clearInterval leaves the timer running.
ClearIntervalKeeps(ts, timer) == ts

\* clearInterval(interval)
ClearInterval(ts, timer) == ts \ {timer}

\* return () => clearInterval(interval): the cleanup of the second effect as
\* component w last ran it.  For no sandboxId the effect returned before
\* it created a timer, and there is nothing to clean up.
EffectCleanup(ts, w) ==
    IF ~w.mounted \/ w.sandboxId = NoSandbox THEN ts
    ELSE ClearInterval(ts, Timer(w.sandboxId, w.startTime))

\* The second effect of component w: the timer it creates, if any.
EffectTimer(ts, w) ==
    IF w.sandboxId = NoSandbox THEN ts
    ELSE SetInterval(ts, Timer(w.sandboxId, w.startTime))

\* The component before it is mounted.
Unmounted ==
    [mounted |-> FALSE, sandboxId |-> NoSandbox, startTime |-> 0,
     timeRemaining |-> NullTime, showWarning |-> FALSE, hasBackup |-> FALSE,
     interval |-> FALSE]

\* The component after its first render and its two effects, at clock t.
MountedWith(ls, store, sandboxId, t) ==
    LET s == StartTimeFor(store, sandboxId, t) IN
    [component |->
       [mounted |-> TRUE, sandboxId |-> sandboxId,
        startTime |-> IF sandboxId = NoSandbox THEN 0 ELSE s.startTime,
        timeRemaining |-> NullTime, showWarning |-> FALSE,
        hasBackup |-> BackupFlag(ls),
        interval |-> sandboxId # NoSandbox],
     store |-> IF sandboxId = NoSandbox THEN store ELSE s.store]

\* if (!showWarning || timeRemaining === null) return null: is the box shown.
Rendered(w) == w.mounted /\ w.showWarning /\ w.timeRemaining # NullTime

NoObservation == [seen |-> FALSE]

\* Part 3 at rest: what the other parts' specifications hold it at.
MonitorIdle ==
    /\ sessionStorage = [k \in SessionKeys |-> NoItem]
    /\ warning = Unmounted
    /\ recovery = FALSE
    /\ observed = [id \in SandboxIds |-> NoObservation]
    /\ firstStart = [id \in SandboxIds |-> NullTime]
    /\ timers = {}
    /\ shownFor = NoSandbox

(* ------------------------------ recovery ------------------------------- *)

\* Part 4: the restore-project route (src/unnamed/part_003), which applies a
\* snapshot's files to a sandbox and restarts its preview, and the
\* scrape-url-enhanced route (src/app/api/scrape-url-enhanced/route.ts).
\* Each await on an external API is a position of the route; the API
\* answers, the call rejects, or nothing ever comes back.

\* Longest apply response, in lines.
MaxChunks == 2

\* requestData.files: its JavaScript type, and its items when an array.
FilesInputs ==
    {[kind |-> "undefined", items |-> <<>>],
     [kind |-> "string", items |-> <<>>],
     [kind |-> "array", items |-> <<>>],
     [kind |-> "array", items |-> <<ProjectFile("a", "1")>>],
     [kind |-> "array",
      items |-> <<ProjectFile("a", "1"), ProjectFile("b", "1")>>]}

\* requestData.packages
PackagesInputs ==
    {[kind |-> "undefined", items |-> <<>>],
     [kind |-> "array", items |-> <<"p">>]}

\* The bodies posted to /api/restore-project.
RestoreBodies ==
    [files : FilesInputs, packages : PackagesInputs,
     sandboxId : {NoSandbox, "sb1"}]

\* NextResponse.json of the restore route.
RestoreFailure(status, error) ==
    [status |-> status, success |-> FALSE, error |-> error,
     filesRestored |-> 0, packagesRestored |-> 0]

\* { success: true, filesRestored: files.length,
\*   packagesRestored: packages?.length || 0 }
RestoreSuccess(body) ==
    [status |-> 200, success |-> TRUE, error |-> "",
     filesRestored |-> Len(body.files.items),
     packagesRestored |-> Len(body.packages.items)]

NoResult == RestoreFailure(0, "")

\* Mutant: the route checks nothing before it calls the apply API.
ValidateNothing(body) == NoResult

\* The two checks on the request: the response they return, NoResult when
\* both pass.
Validate(body) ==
    IF body.files.kind = "undefined" \/ body.files.kind # "array"
    THEN RestoreFailure(400, "Files array is required")
    ELSE IF body.sandboxId = NoSandbox
    THEN RestoreFailure(400, "Sandbox ID is required")
    ELSE NoResult

\* String(error) of a fetch that rejected.
FetchRejected == "TypeError: fetch failed"

\* The lines of an apply response: a progress event, the complete event, a
\* data line that is not JSON.
StreamLines == {"data: progress", "data: complete", "data: <not JSON>"}

\* How a response stream goes on after its lines: it ends, reading it
\* fails, or nothing more ever arrives.
StreamEndings == {"done", "error", "never"}

\* What /api/apply-ai-code-stream may answer.
ApplyAnswerSet ==
    {[ok |-> FALSE, eventStream |-> FALSE, hasBody |-> TRUE, parses |-> FALSE,
      lines |-> <<>>, ending |-> "done"]}
    \cup
    {[ok |-> TRUE, eventStream |-> TRUE, hasBody |-> FALSE, parses |-> FALSE,
      lines |-> <<>>, ending |-> "done"]}
    \cup
    [ok : {TRUE}, eventStream : {TRUE}, hasBody : {TRUE}, parses : {FALSE},
     lines : SeqsUpTo(StreamLines, MaxChunks), ending : StreamEndings]
    \cup
    {[ok |-> TRUE, eventStream |-> FALSE, hasBody |-> TRUE, parses |-> TRUE,
      lines |-> <<>>, ending |-> "done"]}
    \cup
    [ok : {TRUE}, eventStream : {FALSE}, hasBody : {TRUE}, parses : {FALSE},
     lines : SeqsUpTo(StreamLines, MaxChunks), ending : {"done"}]

\* while (!completed) { await reader.read() ... }: how the loop leaves.
RECURSIVE ReadStream(_, _)
ReadStream(lines, ending) ==
    IF lines = <<>>
    THEN CASE ending = "done" -> "ended"
           [] ending = "error" -> "threw"
           [] ending = "never" -> "hung"
    ELSE IF Head(lines) = "data: complete" THEN "complete"
    ELSE ReadStream(Tail(lines), ending)

\* The manual parse of a response that is not JSON: found.
ManualParse(lines) == \E i \in DOMAIN lines : lines[i] = "data: complete"

\* The route from the apply response to its next await or its return:
\* `next` is where it goes, `applied` what it saw of the apply step.
AfterApply(answer) ==
    IF ~answer.ok
    THEN [next |-> "done", applied |-> "not ok",
          result |-> RestoreFailure(500, "Failed to apply files to sandbox")]
    ELSE IF answer.eventStream
    THEN IF ~answer.hasBody
         THEN [next |-> "restart", applied |-> "no body", result |-> NoResult]
         ELSE LET read == ReadStream(answer.lines, answer.ending) IN
              CASE read = "complete" ->
                     [next |-> "restart", applied |-> "complete event",
                      result |-> NoResult]
                [] read = "ended" ->
                     [next |-> "restart", applied |-> "stream ended",
                      result |-> NoResult]
                [] read = "threw" ->
                     [next |-> "done", applied |-> "stream error",
                      result |-> RestoreFailure(500,
                                    "Error: Stream reading failed")]
                [] read = "hung" ->
                     [next |-> "reading", applied |-> "none",
                      result |-> NoResult]
    ELSE IF answer.parses
    THEN [next |-> "restart", applied |-> "json result", result |-> NoResult]
    ELSE IF ManualParse(answer.lines)
    THEN [next |-> "restart", applied |-> "complete event",
          result |-> NoResult]
    ELSE [next |-> "done", applied |-> "unparseable",
          result |-> RestoreFailure(500,
                        "Error: Could not parse response as JSON or streaming format")]

\* The restore route before a request.
RestoreIdleState ==
    [pc |-> "idle", body |-> [none |-> TRUE], calls |-> <<>>,
     applied |-> "none", restarted |-> "none", hung |-> FALSE,
     result |-> NoResult]

\* NextResponse.json of the scrape route.
ScrapeResult(status, success, error) ==
    [status |-> status, success |-> success, error |-> error]

\* The scrape route before a request.
ScrapeIdleState ==
    [pc |-> "idle", hung |-> FALSE, result |-> ScrapeResult(0, FALSE, "")]

\* The scrape route up to its fetch: the response it returns before the
\* fetch, status 0 when it goes on to call Firecrawl.
BeforeFirecrawl(url, hasKey) ==
    IF url = "" THEN ScrapeResult(400, FALSE, "URL is required")
    ELSE IF url = "not a url"
    THEN ScrapeResult(500, FALSE, "Invalid URL format")
    ELSE IF ~hasKey
    THEN ScrapeResult(500, FALSE,
                      "FIRECRAWL_API_KEY environment variable is not set")
    ELSE ScrapeResult(0, FALSE, "")

\* The scrape route from the Firecrawl response to its return.
AfterFirecrawl(answer) ==
    IF ~answer.ok THEN ScrapeResult(500, FALSE, "Firecrawl API error")
    ELSE IF ~answer.success \/ ~answer.hasData
    THEN ScrapeResult(500, FALSE, "Failed to scrape content")
    ELSE ScrapeResult(200, TRUE, "")

\* Part 4 at rest: what the other parts' specifications hold it at.
RecoverIdle ==
    /\ restore = RestoreIdleState
    /\ scrape = ScrapeIdleState

(* ------------------------------ actions -------------------------------- *)

Init ==
    /\ localStorage = [k \in Keys |-> NoItem]
    /\ now = 0
    /\ faultsLeft = 0
    /\ tabs = [t \in TabIds |-> IdleTab]
    /\ damaged = "none"
    /\ op = "init"
    /\ arg = NoArg
    /\ ret = "ok"
    /\ kept = {}
    /\ held = {}
    /\ FixIdle
    /\ MonitorIdle
    /\ RecoverIdle

\* A caller saves a whole snapshot: ProjectPersistence.saveProject(state).
Save ==
    \E state \in SnapshotInputs, fault \in SaveFaults :
        LET r == SaveProject(localStorage, state, now, fault) IN
        /\ localStorage' = r.storage
        /\ op' = "save"
        /\ arg' = [state |-> state]
        /\ ret' = IF r.failed THEN "failed" ELSE "ok"
        /\ damaged' = IF r.failed THEN damaged ELSE "none"
        /\ kept' = IF r.failed /\ r.storage = localStorage THEN kept ELSE {}
        /\ held' = IF r.failed /\ r.storage = localStorage
                   THEN held ELSE PathsOf(state.files)
        /\ faultsLeft' = FaultsAfter(fault)
        /\ UNCHANGED <<now, tabs, fixVars, monitorVars, recoverVars>>

\* A generation step saves its files: ProjectPersistence.saveFiles(...).
\* The method is synchronous: within one JavaScript context it runs to its end.
SaveFilesCall ==
    \E files \in FileLists, packages \in PkgLists, fault \in WriteFaults :
        LET r == SaveFiles(localStorage, files, packages, now, fault) IN
        /\ localStorage' = r.storage
        /\ op' = "saveFiles"
        /\ arg' = [files |-> files, packages |-> packages]
        /\ ret' = r.outcome
        /\ damaged' = IF r.outcome = "ok" THEN "none" ELSE damaged
        /\ kept' = IF r.outcome = "ok" THEN kept \cup PathsOf(files) ELSE kept
        /\ held' = IF r.outcome = "ok" THEN held \cup PathsOf(files) ELSE held
        /\ faultsLeft' = FaultsAfter(fault)
        /\ UNCHANGED <<now, tabs, fixVars, monitorVars, recoverVars>>

\* The user imports a project file: ProjectPersistence.importProject(file).
\* Between its await and its saveProject the method reads no storage, so it
\* acts at the moment it resumes.
Import ==
    \E blob \in ImportBlobs, fault \in WriteFaults :
        LET r == ImportProject(localStorage, blob, now, fault) IN
        /\ localStorage' = r.storage
        /\ op' = "import"
        /\ arg' = [blob |-> blob]
        /\ ret' = IF r.result THEN "accepted" ELSE "rejected"
        /\ damaged' = IF r.result THEN "none" ELSE damaged
        /\ kept' = IF r.result THEN {} ELSE kept
        /\ held' = IF r.result THEN PathsOf(blob.obj.files) ELSE held
        /\ faultsLeft' = FaultsAfter(fault)
        /\ UNCHANGED <<now, tabs, fixVars, monitorVars, recoverVars>>

\* ProjectPersistence.clearProject()
Clear ==
    /\ localStorage' = ClearProject(localStorage)
    /\ op' = "clear"
    /\ arg' = NoArg
    /\ ret' = "ok"
    /\ kept' = {}
    /\ held' = {}
    /\ damaged' = "none"
    /\ UNCHANGED <<now, faultsLeft, tabs, fixVars, monitorVars, recoverVars>>

\* Environment: one slot is removed behind the program's back (devtools,
\* another script of the origin).  Between two completed saves only one of
\* the two slots is damaged.
RemoveItem ==
    \E k \in Keys :
        /\ localStorage[k].kind # "null"
        /\ damaged \in {"none", k}
        /\ damaged' = k
        /\ localStorage' = [localStorage EXCEPT ![k] = NoItem]
        /\ op' = "removeItem"
        /\ arg' = [key |-> k,
                   after |-> IF op = "save"
                             THEN [op |-> op, arg |-> arg, ret |-> ret]
                             ELSE [op |-> op]]
        /\ ret' = "ok"
        /\ UNCHANGED <<now, faultsLeft, tabs, kept, held, fixVars, monitorVars,
                       recoverVars>>

\* Environment: the text of one slot becomes unreadable (no longer JSON).
CorruptItem ==
    \E k \in Keys :
        /\ localStorage[k].kind = "json"
        /\ damaged \in {"none", k}
        /\ damaged' = k
        /\ localStorage' = [localStorage EXCEPT ![k] = Garbage]
        /\ op' = "corruptItem"
        /\ arg' = [key |-> k]
        /\ ret' = "ok"
        /\ UNCHANGED <<now, faultsLeft, tabs, kept, held, fixVars, monitorVars,
                       recoverVars>>

\* Time passes.
Tick ==
    /\ now < MaxTime
    /\ now' = now + 1
    /\ op' = "tick"
    /\ arg' = NoArg
    /\ ret' = "ok"
    /\ UNCHANGED <<localStorage, faultsLeft, tabs, damaged, kept, held,
                   fixVars, monitorVars, recoverVars>>

\* The operations of the class alone, in one JavaScript context.
NextOps ==
    \/ Save
    \/ SaveFilesCall
    \/ Import
    \/ Clear
    \/ Tick

\* The operations, and one storage slot cleared by accident.
Next ==
    \/ NextOps
    \/ RemoveItem

\* The operations, and a storage slot cleared or made unreadable.
NextCorrupt ==
    \/ Next
    \/ CorruptItem

Spec == Init /\ [][Next]_vars

SpecOps == Init /\ [][NextOps]_vars

SpecCorrupt == Init /\ [][NextCorrupt]_vars

\* The same program where, MaxFaults times, localStorage.setItem throws
\* (quota exceeded) or JSON.stringify throws on the state handed to saveProject.
InitFaulty ==
    /\ localStorage = [k \in Keys |-> NoItem]
    /\ now = 0
    /\ faultsLeft = MaxFaults
    /\ tabs = [t \in TabIds |-> IdleTab]
    /\ damaged = "none"
    /\ op = "init"
    /\ arg = NoArg
    /\ ret = "ok"
    /\ kept = {}
    /\ held = {}
    /\ FixIdle
    /\ MonitorIdle
    /\ RecoverIdle

SpecFaulty == InitFaulty /\ [][NextOps]_vars

(* ------------------- saveFiles in two browser tabs ---------------------- *)

\* Two tabs of the origin share localStorage and each calls saveFiles once.
\* A tab runs its own JavaScript; only the single getItem / setItem calls
\* are atomic between tabs.

\* saveFiles -> loadProject: localStorage.getItem(STORAGE_KEY)
TabGetPrimary(t) ==
    /\ tabs[t].pc = "idle"
    /\ \E files \in FileLists, packages \in PkgLists :
          tabs' = [tabs EXCEPT ![t] =
                     [pc |-> "gotPrimary", files |-> files,
                      packages |-> packages,
                      stored |-> localStorage[STORAGE_KEY]]]
    /\ UNCHANGED <<localStorage, now, faultsLeft, damaged, op, arg, ret, kept,
                   held, fixVars, monitorVars, recoverVars>>

\* The rest of loadProject (the backup is read only when the primary was
\* absent), the merge and JSON.stringify.
TabMerge(t) ==
    /\ tabs[t].pc = "gotPrimary"
    /\ LET view == [k \in Keys |-> IF k = STORAGE_KEY
                                   THEN tabs[t].stored
                                   ELSE localStorage[BACKUP_KEY]]
           loaded == LoadProject(view)
           existingState == IF loaded.isNull THEN EmptyState(now)
                            ELSE loaded.state
       IN tabs' = [tabs EXCEPT ![t] =
             IF "packages" \notin DOMAIN existingState
             THEN [pc |-> "done", files |-> tabs[t].files,
                   packages |-> tabs[t].packages, outcome |-> "threw"]
             ELSE [pc |-> "merged", files |-> tabs[t].files,
                   packages |-> tabs[t].packages,
                   serialized |->
                     Serialized(MergedState(existingState, tabs[t].files,
                                            tabs[t].packages, now), now)]]
    /\ UNCHANGED <<localStorage, now, faultsLeft, damaged, op, arg, ret, kept,
                   held, fixVars, monitorVars, recoverVars>>

\* saveProject: localStorage.setItem(this.STORAGE_KEY, serialized)
TabSetPrimary(t) ==
    /\ tabs[t].pc = "merged"
    /\ localStorage' = [localStorage EXCEPT ![STORAGE_KEY] = tabs[t].serialized]
    /\ tabs' = [tabs EXCEPT ![t].pc = "wrotePrimary"]
    /\ UNCHANGED <<now, faultsLeft, damaged, op, arg, ret, kept, held, fixVars,
                   monitorVars, recoverVars>>

\* saveProject: localStorage.setItem(this.BACKUP_KEY, serialized)
TabSetBackup(t) ==
    /\ tabs[t].pc = "wrotePrimary"
    /\ localStorage' = [localStorage EXCEPT ![BACKUP_KEY] = tabs[t].serialized]
    /\ tabs' = [tabs EXCEPT ![t] =
                  [pc |-> "done", files |-> tabs[t].files,
                   packages |-> tabs[t].packages, outcome |-> "ok"]]
    /\ UNCHANGED <<now, faultsLeft, damaged, op, arg, ret, kept, held, fixVars,
                   monitorVars, recoverVars>>

\* The store the tabs find: empty, or a snapshot saved at time 0.
InitTabs ==
    /\ \E found \in {Null} \cup {Some(s) : s \in SnapshotInputs} :
          /\ localStorage = IF found.isNull
                            THEN [k \in Keys |-> NoItem]
                            ELSE [k \in Keys |-> Serialized(found.state, 0)]
          /\ held = IF found.isNull THEN {} ELSE PathsOf(found.state.files)
    /\ now = 0
    /\ faultsLeft = 0
    /\ tabs = [t \in TabIds |-> IdleTab]
    /\ damaged = "none"
    /\ op = "init"
    /\ arg = NoArg
    /\ ret = "ok"
    /\ kept = {}
    /\ FixIdle
    /\ MonitorIdle
    /\ RecoverIdle

NextTabs ==
    \E t \in TabIds :
        \/ TabGetPrimary(t)
        \/ TabMerge(t)
        \/ TabSetPrimary(t)
        \/ TabSetBackup(t)

SpecTabs == InitTabs /\ [][NextTabs]_vars

(* ------------------- ErrorMonitor: the classifier ----------------------- *)

\* ProjectPersistence at rest: what the other parts' specifications hold it at.
StoreIdle ==
    /\ localStorage = [k \in Keys |-> NoItem]
    /\ faultsLeft = 0
    /\ tabs = [t \in TabIds |-> IdleTab]
    /\ damaged = "none"
    /\ kept = {}
    /\ held = {}

HistoryIdle ==
    /\ now = 0
    /\ op = "init"
    /\ arg = NoArg
    /\ ret = "ok"

\* The texts of the calls that run between two calls on the subject.
OtherTexts ==
    {<<"Unexpected token">>,
     <<"Cannot find module", "'react'">>,
     <<"WritableStream is closed", NL>>,
     <<"didn't match">>}

\* The classifier is called on one text, the subject, and on other texts in
\* any order.
CallTexts == {subject} \cup OtherTexts

\* errorMonitor.detectError(text)
DetectErrorCall ==
    \E text \in CallTexts :
        LET d == DetectError(lastIndex, text) IN
        /\ lastIndex' = d.lastIndex
        /\ op' = "detectError"
        /\ arg' = [text |-> text]
        /\ ret' = [rule |-> d.rule]
        /\ UNCHANGED <<storeVars, now, monitorVars, subject, fs, mounted,
                       hooks, errors, network, events, issued, recoverVars>>

\* errorMonitor.autoFix(text)
AutoFixCall ==
    \E text \in CallTexts :
        LET a == AutoFixOf(lastIndex, text) IN
        /\ lastIndex' = a.lastIndex
        /\ op' = "autoFix"
        /\ arg' = [text |-> text]
        /\ ret' = [fix |-> a.fix]
        /\ UNCHANGED <<storeVars, now, monitorVars, subject, fs, mounted,
                       hooks, errors, network, events, issued, recoverVars>>

\* errorMonitor.getErrorType(text)
GetErrorTypeCall ==
    \E text \in CallTexts :
        LET g == GetErrorType(lastIndex, text) IN
        /\ lastIndex' = g.lastIndex
        /\ op' = "getErrorType"
        /\ arg' = [text |-> text]
        /\ ret' = [type |-> g.type]
        /\ UNCHANGED <<storeVars, now, monitorVars, subject, fs, mounted,
                       hooks, errors, network, events, issued, recoverVars>>

InitClassify ==
    /\ StoreIdle
    /\ HistoryIdle
    /\ MonitorIdle
    /\ RecoverIdle
    /\ subject \in Texts
    /\ lastIndex = NewLastIndex
    /\ fs = NoFiles
    /\ mounted = FALSE
    /\ hooks = 0
    /\ errors = <<>>
    /\ network = {}
    /\ events = 0
    /\ issued = <<>>

NextClassify ==
    \/ DetectErrorCall
    \/ AutoFixCall
    \/ GetErrorTypeCall

SpecClassify == InitClassify /\ [][NextClassify]_vars

(* ------------------- the auto-fix route on its own ---------------------- *)

\* The rule a fresh ErrorMonitor gives a text, and the plan it proposes.
PlanOf(text) == AutoFixOf(NewLastIndex, text).fix

\* The request the fourth branch of the route answers; no rule proposes it.
UrlValidationPlan ==
    AutoFix(SCRAPE_FILE, "Validate and format URL", "URL validation", FALSE)

\* The bodies posted to the route: every plan the rules propose for
\* unattended application, and the one above.
RoutePlans ==
    {PlanOf(t) : t \in {t \in ErrorTexts : ShouldApply(PlanOf(t))}}
      \cup {UrlValidationPlan}

\* POST /api/auto-fix with body `plan`.
Post ==
    \E plan \in RoutePlans :
        LET r == Route(fs, plan) IN
        /\ fs' = r.files
        /\ op' = "POST"
        /\ arg' = [body |-> plan]
        /\ ret' = [status |-> r.status, success |-> r.success,
                   wrote |-> r.wrote]
        /\ UNCHANGED <<storeVars, now, monitorVars, subject, lastIndex,
                       mounted, hooks, errors, network, events, issued,
                       recoverVars>>

\* One of the server's files exists, with any content.
InitRoute ==
    /\ StoreIdle
    /\ HistoryIdle
    /\ MonitorIdle
    /\ RecoverIdle
    /\ subject = <<>>
    /\ lastIndex = NewLastIndex
    /\ \E f \in ServerFiles :
          \E c \in SeqsUpTo(FragmentsOf(f), MaxContentLen) :
              fs = [NoFiles EXCEPT ![f] = FileOf(c)]
    /\ mounted = FALSE
    /\ hooks = 0
    /\ errors = <<>>
    /\ network = {}
    /\ events = 0
    /\ issued = <<>>

SpecRoute == InitRoute /\ [][Post]_vars

(* ------------------- ErrorHandler and the route ------------------------- *)

\* The messages of one event with one body and one answer differ only in
\* their number: which of them is taken is immaterial, the lowest is.
First(m, net) ==
    \A o \in net : [o EXCEPT !.n = m.n] = m => m.n <= o.n

\* window 'error' event -> handleError(event)
HandleError ==
    /\ mounted
    /\ events < MaxEvents
    /\ \E message \in HandlerTexts :
          LET r == Listened(lastIndex, message, events + 1) IN
          /\ lastIndex' = r.lastIndex
          /\ errors' = errors \o r.entries
          /\ network' = network \cup r.requests
          /\ issued' = issued \o IssuedOf(r.requests)
          /\ arg' = [message |-> message]
    /\ events' = events + 1
    /\ op' = "error"
    /\ ret' = "ok"
    /\ UNCHANGED <<storeVars, now, monitorVars, subject, fs, mounted, hooks,
                   recoverVars>>

\* window 'unhandledrejection' event -> handleUnhandledRejection(event)
HandleUnhandledRejection ==
    /\ mounted
    /\ events < MaxEvents
    /\ \E reason \in HandlerTexts \cup {NoReason} :
          LET message == ReasonMessage(reason)
              r == Listened(lastIndex, message, events + 1)
          IN
          /\ lastIndex' = r.lastIndex
          /\ errors' = errors \o r.entries
          /\ network' = network \cup r.requests
          /\ issued' = issued \o IssuedOf(r.requests)
          /\ arg' = [message |-> message]
    /\ events' = events + 1
    /\ op' = "unhandledrejection"
    /\ ret' = "ok"
    /\ UNCHANGED <<storeVars, now, monitorVars, subject, fs, mounted, hooks,
                   recoverVars>>

\* Some code of the page calls console.error(message) while it is wrapped.
ConsoleError ==
    /\ hooks > 0
    /\ events < MaxEvents
    /\ \E message \in HandlerTexts :
          LET r == Wrapped(hooks, lastIndex, message, events + 1, mounted) IN
          /\ lastIndex' = r.lastIndex
          /\ errors' = errors \o r.entries
          /\ network' = network \cup r.requests
          /\ issued' = issued \o IssuedOf(r.requests)
          /\ arg' = [message |-> message]
    /\ events' = events + 1
    /\ op' = "console.error"
    /\ ret' = "ok"
    /\ UNCHANGED <<storeVars, now, monitorVars, subject, fs, mounted, hooks,
                   recoverVars>>

\* The server runs POST for a request that arrived.
RouteHandles ==
    \E q \in network :
        /\ q.kind = "request"
        /\ First(q, network)
        /\ LET r == Route(fs, q.body)
               response == [kind |-> "response", event |-> q.event,
                            n |-> q.n, body |-> q.body,
                            status |-> r.status, success |-> r.success]
           IN
           /\ fs' = r.files
           /\ network' = (network \ {q}) \cup {response}
           /\ op' = "POST"
           /\ arg' = [body |-> q.body]
           /\ ret' = [status |-> r.status, success |-> r.success,
                      wrote |-> r.wrote]
        /\ UNCHANGED <<storeVars, now, monitorVars, subject, lastIndex,
                       mounted, hooks, errors, events, issued, recoverVars>>

\* applyAutoFix after its await: the response has arrived.  response.ok is
\* status 200..299; then the list is filtered and the page reloads, which
\* aborts the page's pending requests and starts the page anew with the
\* component mounted once.
ReceiveResponse ==
    \E p \in network :
        /\ p.kind = "response"
        /\ First(p, network)
        /\ op' = "response"
        /\ arg' = [response |-> p]
        /\ IF p.status = 200
           THEN /\ errors' = <<>>
                /\ mounted' = TRUE
                /\ hooks' = 1
                /\ network' = {}
                /\ ret' = "reloaded"
           ELSE /\ network' = network \ {p}
                /\ ret' = "ignored"
                /\ UNCHANGED <<errors, mounted, hooks>>
        /\ UNCHANGED <<storeVars, now, monitorVars, subject, lastIndex, fs,
                       events, issued, recoverVars>>

\* applyAutoFix when fetch rejects: the catch calls console.error, which is
\* the wrapped one.
FetchFails ==
    \E q \in network :
        /\ q.kind = "request"
        /\ First(q, network)
        /\ LET r == Wrapped(hooks, lastIndex, FetchFailedMessage, q.event,
                            mounted)
           IN
           /\ lastIndex' = r.lastIndex
           /\ errors' = errors \o r.entries
           /\ network' = (network \ {q}) \cup r.requests
           /\ issued' = issued \o IssuedOf(r.requests)
        /\ op' = "fetchFailed"
        /\ arg' = [body |-> q.body]
        /\ ret' = "ok"
        /\ UNCHANGED <<storeVars, now, monitorVars, subject, fs, mounted,
                       hooks, events, recoverVars>>

\* React mounts the component: the effect adds the two listeners and wraps
\* console.error once more.
Mount ==
    /\ ~mounted
    /\ hooks < MaxMounts
    /\ mounted' = TRUE
    /\ hooks' = hooks + 1
    /\ errors' = <<>>
    /\ op' = "mount"
    /\ arg' = NoArg
    /\ ret' = "ok"
    /\ UNCHANGED <<storeVars, now, monitorVars, subject, lastIndex, fs,
                   network, events, issued, recoverVars>>

\* React unmounts it: the cleanup removes the two listeners, and only them.
Unmount ==
    /\ mounted
    /\ mounted' = FALSE
    /\ errors' = <<>>
    /\ op' = "unmount"
    /\ arg' = NoArg
    /\ ret' = "ok"
    /\ UNCHANGED <<storeVars, now, monitorVars, subject, lastIndex, fs, hooks,
                   network, events, issued, recoverVars>>

\* The "Dismiss All" button: setErrors([])
DismissAll ==
    /\ mounted
    /\ errors # <<>>
    /\ errors' = <<>>
    /\ op' = "dismissAll"
    /\ arg' = NoArg
    /\ ret' = "ok"
    /\ UNCHANGED <<storeVars, now, monitorVars, subject, lastIndex, fs,
                   mounted, hooks, network, events, issued, recoverVars>>

\* The page is loaded with the component mounted.  The server's files are
\* there, except the style sheet at the path the CSS rule captures.
InitHandler ==
    /\ StoreIdle
    /\ HistoryIdle
    /\ MonitorIdle
    /\ RecoverIdle
    /\ subject = <<>>
    /\ lastIndex = NewLastIndex
    /\ fs = [FreshFiles EXCEPT ![CSS_FILE] = NoFile]
    /\ mounted = TRUE
    /\ hooks = 1
    /\ errors = <<>>
    /\ network = {}
    /\ events = 0
    /\ issued = <<>>

NextHandler ==
    \/ HandleError
    \/ HandleUnhandledRejection
    \/ ConsoleError
    \/ RouteHandles
    \/ ReceiveResponse
    \/ FetchFails
    \/ Mount
    \/ Unmount
    \/ DismissAll

SpecHandler == InitHandler /\ [][NextHandler]_vars

(* ------------------- SandboxWarning: the lifecycle monitor -------------- *)

\* The history of first observations, after sandboxId is observed at t.
FirstSeen(first, sandboxId, t) ==
    IF sandboxId = NoSandbox \/ first[sandboxId] # NullTime THEN first
    ELSE [first EXCEPT ![sandboxId] = Ms(t)]

\* The page renders <SandboxWarning sandboxId={sandboxId}>: first render and
\* both effects.
MountWarning ==
    /\ ~warning.mounted
    /\ \E sandboxId \in SandboxIds \cup {NoSandbox} :
          LET m == MountedWith(localStorage, sessionStorage, sandboxId, now) IN
          /\ warning' = m.component
          /\ sessionStorage' = m.store
          /\ timers' = EffectTimer(timers, m.component)
          /\ firstStart' = FirstSeen(firstStart, sandboxId, now)
          /\ arg' = [sandboxId |-> sandboxId]
    /\ shownFor' = NoSandbox
    /\ op' = "mount"
    /\ ret' = "ok"
    /\ UNCHANGED <<storeVars, now, fixVars, recovery, observed, recoverVars>>

\* The prop sandboxId changes: the second effect's cleanup (clearInterval)
\* and the effect again.  The three states of useState keep their values.
SetSandboxId ==
    /\ warning.mounted
    /\ \E sandboxId \in (SandboxIds \cup {NoSandbox}) \ {warning.sandboxId} :
          LET m == MountedWith(localStorage, sessionStorage, sandboxId, now) IN
          /\ warning' = [warning EXCEPT
                           !.sandboxId = sandboxId,
                           !.startTime = m.component.startTime,
                           !.interval = m.component.interval]
          /\ sessionStorage' = m.store
          /\ timers' = EffectTimer(EffectCleanup(timers, warning),
                                   m.component)
          /\ firstStart' = FirstSeen(firstStart, sandboxId, now)
          /\ arg' = [sandboxId |-> sandboxId]
    /\ op' = "setSandboxId"
    /\ ret' = "ok"
    /\ UNCHANGED <<storeVars, now, fixVars, recovery, observed, shownFor,
                   recoverVars>>

\* The user reloads the page: the component is created again for the same
\* sandboxId; sessionStorage outlives the reload, the old window's timers do
\* not.
ReloadPage ==
    /\ warning.mounted
    /\ LET m == MountedWith(localStorage, sessionStorage, warning.sandboxId,
                            now)
       IN
       /\ warning' = m.component
       /\ sessionStorage' = m.store
       /\ timers' = EffectTimer({}, m.component)
    /\ firstStart' = FirstSeen(firstStart, warning.sandboxId, now)
    /\ shownFor' = NoSandbox
    /\ op' = "reload"
    /\ arg' = [sandboxId |-> warning.sandboxId]
    /\ ret' = "ok"
    /\ UNCHANGED <<storeVars, now, fixVars, recovery, observed, recoverVars>>

\* The callback of a live timer runs.  Its state setters act on the
\* component while it is mounted.
IntervalTick ==
    \E timer \in timers :
        LET o == Observe(now, timer.startTime)
            own == /\ warning.mounted
                   /\ timer = Timer(warning.sandboxId, warning.startTime)
        IN
        /\ warning' = IF ~warning.mounted THEN warning
                      ELSE [warning EXCEPT
                              !.timeRemaining = Ms(o.timeRemaining),
                              !.showWarning = o.showWarning,
                              !.interval = IF own THEN ~o.stop ELSE @]
        /\ timers' = IF o.stop THEN ClearInterval(timers, timer) ELSE timers
        /\ shownFor' = IF warning.mounted THEN timer.sandboxId ELSE shownFor
        /\ observed' = [observed EXCEPT ![timer.sandboxId] =
                          [seen |-> TRUE, state |-> o.state,
                           remaining |-> o.timeRemaining, at |-> now,
                           startedAt |-> timer.startTime,
                           before |-> IF observed[timer.sandboxId].seen
                                      THEN observed[timer.sandboxId].state
                                      ELSE "none"]]
        /\ op' = "interval"
        /\ arg' = [sandboxId |-> timer.sandboxId]
        /\ ret' = "ok"
        /\ UNCHANGED <<storeVars, now, fixVars, sessionStorage, recovery,
                       firstStart, recoverVars>>

\* The page stops rendering <SandboxWarning>: the cleanup of the second
\* effect runs and the component's state is gone.
UnmountWarning ==
    /\ warning.mounted
    /\ warning' = Unmounted
    /\ timers' = EffectCleanup(timers, warning)
    /\ shownFor' = NoSandbox
    /\ op' = "unmount"
    /\ arg' = [sandboxId |-> warning.sandboxId]
    /\ ret' = "ok"
    /\ UNCHANGED <<storeVars, now, fixVars, sessionStorage, recovery, observed,
                   firstStart, recoverVars>>

\* The user clicks "Create New Sandbox" / "Extend Session".
ClickCreate ==
    /\ Rendered(warning)
    /\ recovery' = TRUE
    /\ warning' = [warning EXCEPT !.showWarning = FALSE]
    /\ op' = "create"
    /\ arg' = [sandboxId |-> warning.sandboxId]
    /\ ret' = "ok"
    /\ UNCHANGED <<storeVars, now, fixVars, sessionStorage, observed,
                   firstStart, timers, shownFor, recoverVars>>

\* The user clicks "Dismiss".
Dismiss ==
    /\ Rendered(warning)
    /\ warning' = [warning EXCEPT !.showWarning = FALSE]
    /\ op' = "dismiss"
    /\ arg' = [sandboxId |-> warning.sandboxId]
    /\ ret' = "ok"
    /\ UNCHANGED <<storeVars, now, fixVars, sessionStorage, recovery, observed,
                   firstStart, timers, shownFor, recoverVars>>

\* Time passes: the clock moves to a later instant.
ClockAdvance ==
    /\ \E t \in Instants : t > now /\ now' = t
    /\ op' = "clock"
    /\ arg' = NoArg
    /\ ret' = "ok"
    /\ UNCHANGED <<storeVars, fixVars, monitorVars, recoverVars>>

InitMonitor ==
    /\ StoreIdle
    /\ HistoryIdle
    /\ FixIdle
    /\ MonitorIdle
    /\ RecoverIdle

NextMonitor ==
    \/ MountWarning
    \/ SetSandboxId
    \/ ReloadPage
    \/ UnmountWarning
    \/ IntervalTick
    \/ ClickCreate
    \/ Dismiss
    \/ ClockAdvance

SpecMonitor == InitMonitor /\ [][NextMonitor]_vars

\* The timer and the clock keep running; the user may never click.
SpecMonitorFair ==
    /\ InitMonitor
    /\ [][NextMonitor]_vars
    /\ WF_vars(IntervalTick)
    /\ WF_vars(ClockAdvance)

\* The monitor of one sandbox while the project is saved and cleared in the
\* same page.
NextMonitorStore ==
    \/ MountWarning
    \/ ReloadPage
    \/ IntervalTick
    \/ Dismiss
    \/ ClockAdvance
    \/ Save
    \/ Clear
    \/ RemoveItem

SpecMonitorStore == InitMonitor /\ [][NextMonitorStore]_vars

(* ------------------- the recovery and scrape routes --------------------- *)

\* POST /api/restore-project: the route up to its first await on the
\* apply API, or to the response of a failed check.
RestoreRequest ==
    /\ restore.pc = "idle"
    /\ \E body \in RestoreBodies :
          LET v == Validate(body) IN
          /\ restore' = IF v # NoResult
                        THEN [restore EXCEPT !.pc = "done", !.body = body,
                                             !.result = v]
                        ELSE [restore EXCEPT !.pc = "apply", !.body = body,
                                             !.calls = <<"apply">>]
          /\ arg' = [body |-> body]
    /\ op' = "restore"
    /\ ret' = "ok"
    /\ UNCHANGED <<storeVars, now, fixVars, monitorVars, scrape>>

\* The apply API answers; the route runs to the restart call, to a read
\* that never settles, or to its response.
ApplyAnswers ==
    /\ restore.pc = "apply"
    /\ ~restore.hung
    /\ \E answer \in ApplyAnswerSet :
          LET a == AfterApply(answer) IN
          /\ restore' = [restore EXCEPT
                           !.pc = a.next,
                           !.applied = a.applied,
                           !.hung = (a.next = "reading"),
                           !.calls = IF a.next = "restart"
                                     THEN Append(@, "restart") ELSE @,
                           !.result = a.result]
          /\ arg' = [answer |-> answer]
    /\ op' = "applyAnswer"
    /\ ret' = "ok"
    /\ UNCHANGED <<storeVars, now, fixVars, monitorVars, scrape>>

\* The fetch of the apply API rejects: the outer catch answers.
ApplyRejects ==
    /\ restore.pc = "apply"
    /\ ~restore.hung
    /\ restore' = [restore EXCEPT
                     !.pc = "done", !.applied = "rejected",
                     !.result = RestoreFailure(500, FetchRejected)]
    /\ op' = "applyRejects"
    /\ arg' = NoArg
    /\ ret' = "ok"
    /\ UNCHANGED <<storeVars, now, fixVars, monitorVars, scrape>>

\* The apply API never answers.
ApplyHangs ==
    /\ restore.pc = "apply"
    /\ ~restore.hung
    /\ restore' = [restore EXCEPT !.hung = TRUE]
    /\ op' = "applyHangs"
    /\ arg' = NoArg
    /\ ret' = "ok"
    /\ UNCHANGED <<storeVars, now, fixVars, monitorVars, scrape>>

\* The restart API answers, ok or not: the route returns success.
RestartAnswers ==
    /\ restore.pc = "restart"
    /\ ~restore.hung
    /\ \E ok \in BOOLEAN :
          /\ restore' = [restore EXCEPT
                           !.pc = "done",
                           !.restarted = IF ok THEN "ok" ELSE "not ok",
                           !.result = RestoreSuccess(restore.body)]
          /\ arg' = [ok |-> ok]
    /\ op' = "restartAnswer"
    /\ ret' = "ok"
    /\ UNCHANGED <<storeVars, now, fixVars, monitorVars, scrape>>

\* The fetch of the restart API rejects: the outer catch answers.
RestartRejects ==
    /\ restore.pc = "restart"
    /\ ~restore.hung
    /\ restore' = [restore EXCEPT
                     !.pc = "done", !.restarted = "rejected",
                     !.result = RestoreFailure(500, FetchRejected)]
    /\ op' = "restartRejects"
    /\ arg' = NoArg
    /\ ret' = "ok"
    /\ UNCHANGED <<storeVars, now, fixVars, monitorVars, scrape>>

\* The restart API never answers.
RestartHangs ==
    /\ restore.pc = "restart"
    /\ ~restore.hung
    /\ restore' = [restore EXCEPT !.hung = TRUE, !.restarted = "no answer"]
    /\ op' = "restartHangs"
    /\ arg' = NoArg
    /\ ret' = "ok"
    /\ UNCHANGED <<storeVars, now, fixVars, monitorVars, scrape>>

\* POST /api/scrape-url-enhanced: the route up to its fetch of Firecrawl.
ScrapeRequest ==
    /\ scrape.pc = "idle"
    /\ \E url \in {"", "not a url", "https://example.com"},
          hasKey \in BOOLEAN :
          LET b == BeforeFirecrawl(url, hasKey) IN
          /\ scrape' = IF b.status # 0
                       THEN [scrape EXCEPT !.pc = "done", !.result = b]
                       ELSE [scrape EXCEPT !.pc = "firecrawl"]
          /\ arg' = [url |-> url, hasKey |-> hasKey]
    /\ op' = "scrape"
    /\ ret' = "ok"
    /\ UNCHANGED <<storeVars, now, fixVars, monitorVars, restore>>

\* Firecrawl answers.
FirecrawlAnswers ==
    /\ scrape.pc = "firecrawl"
    /\ ~scrape.hung
    /\ \E answer \in [ok : BOOLEAN, success : BOOLEAN, hasData : BOOLEAN] :
          /\ scrape' = [scrape EXCEPT !.pc = "done",
                                      !.result = AfterFirecrawl(answer)]
          /\ arg' = [answer |-> answer]
    /\ op' = "firecrawlAnswer"
    /\ ret' = "ok"
    /\ UNCHANGED <<storeVars, now, fixVars, monitorVars, restore>>

\* The fetch of Firecrawl rejects: the catch answers.
FirecrawlRejects ==
    /\ scrape.pc = "firecrawl"
    /\ ~scrape.hung
    /\ scrape' = [scrape EXCEPT
                    !.pc = "done",
                    !.result = ScrapeResult(500, FALSE, "fetch failed")]
    /\ op' = "firecrawlRejects"
    /\ arg' = NoArg
    /\ ret' = "ok"
    /\ UNCHANGED <<storeVars, now, fixVars, monitorVars, restore>>

\* Firecrawl never answers.
FirecrawlHangs ==
    /\ scrape.pc = "firecrawl"
    /\ ~scrape.hung
    /\ scrape' = [scrape EXCEPT !.hung = TRUE]
    /\ op' = "firecrawlHangs"
    /\ arg' = NoArg
    /\ ret' = "ok"
    /\ UNCHANGED <<storeVars, now, fixVars, monitorVars, restore>>

InitRecover ==
    /\ StoreIdle
    /\ HistoryIdle
    /\ FixIdle
    /\ MonitorIdle
    /\ RecoverIdle

\* A call of the restore route settles.
RestoreSettles ==
    \/ ApplyAnswers
    \/ ApplyRejects
    \/ RestartAnswers
    \/ RestartRejects

\* The call of the scrape route settles.
ScrapeSettles ==
    \/ FirecrawlAnswers
    \/ FirecrawlRejects

NextRecover ==
    \/ RestoreRequest
    \/ RestoreSettles
    \/ ApplyHangs
    \/ RestartHangs
    \/ ScrapeRequest
    \/ ScrapeSettles
    \/ FirecrawlHangs

SpecRecover == InitRecover /\ [][NextRecover]_vars

\* A pending call that can settle does settle, and the route then runs on.
SpecRecoverFair ==
    /\ InitRecover
    /\ [][NextRecover]_vars
    /\ WF_vars(RestoreSettles)
    /\ WF_vars(ScrapeSettles)

(* ------------------------------ claims --------------------------------- *)

\* What load() returns in the current state.
Loaded == LoadProject(localStorage)

\* The path -> content map of a file list: the last entry of a path counts.
FileMapOf(files) ==
    [p \in PathsOf(files) |->
        files[CHOOSE i \in DOMAIN files :
                /\ files[i].path = p
                /\ \A j \in DOMAIN files : j > i => files[j].path # p].content]

\* The packages of a loaded snapshot, as a set (none when it has no list).
PackageSetOf(loaded) ==
    IF loaded.isNull \/ "packages" \notin DOMAIN loaded.state
    THEN {}
    ELSE Range(loaded.state.packages)

FilesOf(loaded) == IF loaded.isNull THEN <<>> ELSE loaded.state.files

\* loaded equals the snapshot s in everything but lastSaved.
SameSnapshot(loaded, s) ==
    /\ DOMAIN loaded = DOMAIN s \cup {"lastSaved"}
    /\ \A k \in DOMAIN s \ {"lastSaved"} : loaded[k] = s[k]

\* C1: after saveFiles(newFiles, newPackages), load() returns the files that
\* load() returned before overridden by newFiles (per path, last write wins),
\* and the union of the packages before and newPackages.
C1_MergeOnSave ==
    [][op' = "saveFiles" =>
        LET before == LoadProject(localStorage)
            after == LoadProject(localStorage')
        IN /\ ~after.isNull
           /\ FileMapOf(after.state.files)
                = FileMapOf(arg'.files) @@ FileMapOf(FilesOf(before))
           /\ PackageSetOf(after)
                = PackageSetOf(before) \cup Range(arg'.packages)]_vars

\* The same merge law for the snapshots that carry a package list: it holds.
MergeOnSaveWithPackages ==
    [][(op' = "saveFiles" /\ ret' = "ok") =>
        LET before == LoadProject(localStorage)
            after == LoadProject(localStorage')
        IN /\ ~after.isNull
           /\ FileMapOf(after.state.files)
                = FileMapOf(arg'.files) @@ FileMapOf(FilesOf(before))
           /\ PackageSetOf(after)
                = PackageSetOf(before) \cup Range(arg'.packages)
           /\ NoDuplicatePaths(after.state.files)
           /\ NoDuplicates(after.state.packages)]_vars

Readable(item) == item.kind = "json"

\* C2: load() returns the primary slot's snapshot; when the primary slot is
\* absent or unreadable it returns the backup slot's snapshot; it returns
\* none only when neither slot yields a snapshot.
C2_LoadFallsBack ==
    Loaded = IF Readable(localStorage[STORAGE_KEY])
             THEN Some(localStorage[STORAGE_KEY].doc)
             ELSE IF Readable(localStorage[BACKUP_KEY])
             THEN Some(localStorage[BACKUP_KEY].doc)
             ELSE Null

\* C3: a save that reported a failure changed no slot, so load() returns
\* what it returned before.
C3_FailedSaveChangesNothing ==
    [][(op' = "save" /\ ret' = "failed") =>
        /\ localStorage' = localStorage
        /\ LoadProject(localStorage') = LoadProject(localStorage)]_vars

\* C4: after every saveFiles, every path stored by an earlier saveFiles (and
\* not removed by clear, save or import) is among the files load() returns.
C4_SavedFilesAreKept ==
    op = "saveFiles" => kept \subseteq PathsOf(FilesOf(Loaded))

\* C5: when two concurrent saveFiles calls have both completed, load()
\* contains every file stored before and every new file of both calls.
C5_NoLostUpdate ==
    (\A t \in TabIds : tabs[t].pc = "done" /\ tabs[t].outcome = "ok")
    => /\ ~Loaded.isNull
       /\ held \cup UNION {PathsOf(tabs[t].files) : t \in TabIds}
            \subseteq PathsOf(FilesOf(Loaded))

\* C6: importSnapshot rejects, changing no slot, a blob that cannot be read
\* or parsed or whose files is missing or not a sequence; it accepts a blob
\* whose files is a sequence, and load() then returns those files.
C6_ImportValidation ==
    [][op' = "import" =>
        LET blob == arg'.blob
            after == LoadProject(localStorage')
        IN IF blob.kind = "object" /\ blob.filesType = "array"
           THEN /\ ret' = "accepted"
                /\ ~after.isNull
                /\ after.state.files = blob.obj.files
           ELSE /\ ret' = "rejected"
                /\ localStorage' = localStorage]_vars

\* C6 witness: a document without files was rejected while a snapshot is stored.
C6_Witness ==
    /\ op = "import"
    /\ ret = "rejected"
    /\ arg.blob.kind = "object"
    /\ arg.blob.filesType = "undefined"
    /\ ~Loaded.isNull

\* C7: the snapshot load() returns has no two files with the same path and
\* no package twice.
C7_NoDuplicates ==
    ~Loaded.isNull =>
        /\ NoDuplicatePaths(Loaded.state.files)
        /\ ("packages" \in DOMAIN Loaded.state
               => NoDuplicates(Loaded.state.packages))

\* C8: when the primary slot is removed right after a successful save(S),
\* load() still returns S (from the backup slot) and exists() is true.
C8_DualWriteFallback ==
    (/\ op = "removeItem"
     /\ arg.key = STORAGE_KEY
     /\ arg.after.op = "save"
     /\ arg.after.ret = "ok")
    => /\ HasProject(localStorage)
       /\ ~Loaded.isNull
       /\ SameSnapshot(Loaded.state, arg.after.arg.state)
       /\ Loaded.state.lastSaved = ToISOString(NewDate(now))

\* C8 witness: the primary slot was removed after a save of a snapshot with files.
C8_Witness ==
    /\ op = "removeItem"
    /\ arg.key = STORAGE_KEY
    /\ arg.after.op = "save"
    /\ arg.after.ret = "ok"
    /\ arg.after.arg.state.files # <<>>
    /\ localStorage[STORAGE_KEY] = NoItem

\* C9: right after save(S), load() returns S in files, packages, projectName
\* and sandboxId, with lastSaved set to the time of the save.
C9_RoundTrip ==
    (op = "save" /\ ret = "ok")
    => /\ ~Loaded.isNull
       /\ SameSnapshot(Loaded.state, arg.state)
       /\ Loaded.state.lastSaved = ToISOString(NewDate(now))

\* C9 witness: a snapshot with a sandboxId and an older lastSaved was saved.
C9_Witness ==
    /\ op = "save"
    /\ ret = "ok"
    /\ "sandboxId" \in DOMAIN arg.state
    /\ arg.state.lastSaved.ms < now

\* C10: once saveFiles has returned, load() shows each file of the call (the
\* last one given for its path), each package of the call, every path that
\* earlier saves stored, and a snapshot stamped with the time of this call.
C10_ReadYourWrites ==
    (op = "saveFiles" /\ ret = "ok")
    => /\ ~Loaded.isNull
       /\ \A p \in PathsOf(arg.files) :
            /\ p \in PathsOf(Loaded.state.files)
            /\ FileMapOf(Loaded.state.files)[p] = FileMapOf(arg.files)[p]
       /\ Range(arg.packages) \subseteq Range(Loaded.state.packages)
       /\ kept \cup held \subseteq PathsOf(Loaded.state.files)
       /\ Loaded.state.lastSaved = ToISOString(NewDate(now))

\* C10 witness: after the clock advanced, a saveFiles returned whose files
\* do not include a path stored by an earlier saveFiles.
C10_Witness ==
    /\ op = "saveFiles"
    /\ ret = "ok"
    /\ arg.files # <<>>
    /\ ~(kept \subseteq PathsOf(arg.files))
    /\ now > 0

(* ---------------- claims: remediation and classification ---------------- *)

\* The requests applyAutoFix has sent and that are still under way.
RequestsInFlight == {q \in network : q.kind = "request"}

\* C11: a remediation plan with manual = true is never auto-applied: whatever
\* error events arrive on the three channels, no apply request was issued and
\* none is under way for a plan whose manual flag is true.
C11_ManualNeverApplied ==
    /\ \A i \in DOMAIN issued : ~issued[i].plan.manual
    /\ \A q \in RequestsInFlight : ~q.body.manual

\* C11 witness: a console.error event was classified to a manual plan, which
\* is surfaced in the list.
C11_Witness ==
    /\ op = "console.error"
    /\ \E i \in DOMAIN errors :
          /\ errors[i].message = arg.message
          /\ ~errors[i].fix.isNull
          /\ errors[i].fix.manual

\* C12: idempotent patch application: when the route has applied a
\* manual = false plan with success and the same plan is posted again, the
\* second run leaves every file as it is, writes nothing and reports success.
C12_IdempotentApply ==
    [][(/\ op = "POST"
        /\ op' = "POST"
        /\ arg' = arg
        /\ ~arg.body.manual
        /\ ret.success)
       => (/\ fs' = fs
           /\ ~ret'.wrote
           /\ ret'.success)]_vars

\* C13: the executor reloads the page, which empties the surfaced list, only
\* after apply reported success; when the response says that no fix was
\* applied or that it failed, there is no reload and the list stays.
C13_ReloadOnlyAfterSuccess ==
    [][op' = "response"
       => IF arg'.response.success
          THEN ret' = "reloaded"
          ELSE /\ ret' = "ignored"
               /\ errors' = errors
               /\ hooks' = hooks]_vars

\* The apply requests issued for error event e.
IssuedFor(e) == {i \in DOMAIN issued : issued[i].event = e}

\* C14: an apply failure is not retried: for one error event at most one
\* apply request is issued, a failed apply included.
C14_AtMostOneApplyPerEvent ==
    \A e \in 1..events : Cardinality(IssuedFor(e)) <= 1

\* The rules whose pattern matches a text, each tested on its own.
MatchingRules(text) ==
    {r \in Rules : RegExpTest(ErrorPatterns[r].pattern, 0, text).result}

\* The generic syntax rule.
SyntaxRule == CHOOSE r \in Rules : ErrorPatterns[r].type = "syntax"

\* C15: classify returns the earliest declared rule whose pattern matches the
\* text, none when no pattern matches, and the syntax rule only when no other
\* rule matches.
C15_FirstMatchWins ==
    op = "detectError"
    => LET matching == MatchingRules(arg.text) IN
       /\ matching = {} => ret.rule = 0
       /\ matching # {} =>
            /\ ret.rule \in matching
            /\ \A r \in matching : ret.rule <= r
       /\ ret.rule = SyntaxRule => matching = {SyntaxRule}

\* C15 witness: classify ran on a text matched by the syntax rule and by an
\* earlier rule.
C15_Witness ==
    /\ op = "detectError"
    /\ SyntaxRule \in MatchingRules(arg.text)
    /\ Cardinality(MatchingRules(arg.text)) >= 2
    /\ ret.rule # 0

\* C16: classification determinism: after any interleaving of classify,
\* getCategory and propose calls, classify on the subject returns the rule it
\* returned from the fresh classifier, and no call has left state behind.
C16_ClassifyDeterministic ==
    /\ lastIndex = NewLastIndex
    /\ DetectError(lastIndex, subject).rule
         = DetectError(NewLastIndex, subject).rule
    /\ (op = "detectError" /\ arg.text = subject)
         => ret.rule = DetectError(NewLastIndex, subject).rule

\* C16 witness: a propose call on another text has just run, and the subject
\* is a text that a rule matches.
C16_Witness ==
    /\ op = "autoFix"
    /\ arg.text # subject
    /\ ~ret.fix.isNull
    /\ DetectError(lastIndex, subject).rule # 0

(* ---------------- claims: the sandbox lifecycle monitor ----------------- *)

\* Active, then Warning, then Expired.
Rank(state) ==
    CASE state = "Active" -> 1
      [] state = "Warning" -> 2
      [] state = "Expired" -> 3

\* C17: lifecycle monotonicity: for a fixed startedAt an observation never
\* reports an earlier state than the one before it, its remaining time is not
\* larger, and is smaller when the clock has moved, until it is zero; the
\* remaining time is zero exactly in state Expired.
C17_LifecycleMonotonic ==
    [][op' = "interval"
       => LET o == observed[warning.sandboxId]
              n == observed'[warning.sandboxId]
          IN  /\ (n.remaining = 0) <=> (n.state = "Expired")
              /\ (o.seen /\ o.startedAt = n.startedAt)
                   => /\ Rank(n.state) >= Rank(o.state)
                      /\ n.remaining <= o.remaining
                      /\ n.at > o.at
                           => (n.remaining < o.remaining \/ n.remaining = 0)]_vars

\* C17 witness: a sandbox observed in state Warning is observed Expired.
C17_Witness ==
    /\ op = "interval"
    /\ observed[arg.sandboxId].state = "Expired"
    /\ observed[arg.sandboxId].before = "Warning"

\* C18: reload stability: the stored start time of a sandboxId is the clock
\* at its first observation, and a monitor created for that sandboxId, again
\* after a reload, uses that start time.
C18_ReloadStability ==
    \A id \in SandboxIds :
        /\ sessionStorage[SandboxStartKey(id)].kind # "null"
             => firstStart[id] = Ms(ParseInt(sessionStorage[SandboxStartKey(id)]))
        /\ (warning.mounted /\ warning.sandboxId = id)
             => firstStart[id] = Ms(warning.startTime)

\* C18 witness: the page was reloaded after the clock had moved on from the
\* sandbox's first observation.
C18_Witness ==
    /\ op = "reload"
    /\ warning.sandboxId # NoSandbox
    /\ now > warning.startTime

\* C19: when the clock of the sandbox reaches Expired, the create-new-sandbox
\* callback fires, with the timer running and no user action needed.
C19_ExpiryInvokesRecovery ==
    (warning.mounted /\ warning.timeRemaining = Ms(0)) ~> recovery

\* C20: whenever the warning is shown, its indication that a recovery
\* snapshot exists agrees with hasProject() at that moment.
C20_BackupFlagAgrees ==
    Rendered(warning) => (warning.hasBackup <=> HasProject(localStorage))

\* C23: polling cancellation: at every moment at most one timer is live, it
\* belongs to the mounted component's current sandboxId, and a timer that
\* has just fired is that sandboxId's.
C23_NoStaleTimer ==
    /\ Cardinality(timers) <= 1
    /\ \A timer \in timers :
          /\ warning.mounted
          /\ timer.sandboxId = warning.sandboxId
    /\ op = "interval" => (warning.mounted /\ arg.sandboxId = warning.sandboxId)

\* C23 witness: the sandboxId changed after the previous sandbox's timer had
\* fired and before that sandbox expired, and the new sandbox's timer runs.
C23_Witness ==
    /\ op = "setSandboxId"
    /\ timers = {Timer(warning.sandboxId, warning.startTime)}
    /\ \E id \in SandboxIds \ {warning.sandboxId} :
          /\ observed[id].seen
          /\ observed[id].state # "Expired"

\* C30: the warning shown describes the currently monitored sandbox: what is
\* displayed was set by the timer of the component's current sandboxId.
C30_WarningOfCurrentSandbox ==
    Rendered(warning) => shownFor = warning.sandboxId

(* ---------------- claims: proposing and applying a plan ------------------ *)

\* The capture that a rule's producer expects in the text: the path of a
\* file or the name of a module; "" when the text has none.
CaptureOf(rule, text) ==
    CASE rule = 1 -> FirstCapture(text, CssFileIn)
      [] rule = 3 -> FirstCapture(text, TsFrameIn)
      [] rule = 5 -> QuotedIn(text)
      [] rule = 6 -> FirstCapture(text, SourceFileIn)
      [] OTHER -> ""

\* The rules whose producer takes the plan's target from the text.
CapturingRules == {1, 3, 5, 6}

\* The earliest declared of a non-empty set of rules.
Earliest(rules) == CHOOSE r \in rules : \A q \in rules : r <= q

\* C24: propose returns none when no rule matches the text, and getCategory
\* is then "unknown"; when rules match, it returns none exactly when the
\* first of them expects a capture that the text does not have, whatever
\* the later rules would produce, and otherwise a plan whose target is that
\* capture or the rule's fixed file.
C24_ProposeOrNone ==
    /\ op = "getErrorType"
         => (ret.type = "unknown" <=> MatchingRules(arg.text) = {})
    /\ op = "autoFix"
         => LET matching == MatchingRules(arg.text) IN
            /\ matching = {} => ret.fix.isNull
            /\ matching # {} =>
                 LET r == Earliest(matching)
                     capture == CaptureOf(r, arg.text)
                 IN  IF r \in CapturingRules /\ capture = ""
                     THEN ret.fix.isNull
                     ELSE /\ ~ret.fix.isNull
                          /\ r \in {1, 3, 6} => ret.fix.file = capture
                          /\ r = 2 => ret.fix.file = "app/layout.tsx"
                          /\ r = 4 => ret.fix.file = SCRAPE_FILE
                          /\ r = 5 => /\ ret.fix.file = "package.json"
                                      /\ ret.fix.fix = NpmInstall(capture)

\* C24 witness: propose returned none for a text whose first matching rule
\* finds no capture while a later matching rule would have produced a plan.
C24_Witness ==
    /\ op = "autoFix"
    /\ ret.fix.isNull
    /\ \E r \in MatchingRules(arg.text) :
          /\ r # Earliest(MatchingRules(arg.text))
          /\ ~Producer(r, arg.text).isNull

\* The plans that propose produces for unattended application.
ProposedPlans == RoutePlans \ {UrlValidationPlan}

\* C27: every manual = false plan that propose can produce is recognised by
\* apply: the route never answers it with "No auto-fix available" (status
\* 200 with success: false).
C27_ProposedPlansRecognised ==
    (op = "POST" /\ arg.body \in ProposedPlans)
        => ~(ret.status = 200 /\ ~ret.success)

(* ---------------- claims: saving after an import ------------------------- *)

\* C29: a saveFiles(newFiles, newPackages) that follows an accepted import
\* completes normally, and load() then returns the imported files
\* overridden by newFiles and a package list that has newPackages.
C29_SaveFilesAfterImport ==
    [][(op = "import" /\ ret = "accepted" /\ op' = "saveFiles")
       => /\ ret' = "ok"
          /\ LET after == LoadProject(localStorage') IN
             /\ ~after.isNull
             /\ FileMapOf(after.state.files)
                  = FileMapOf(arg'.files) @@ FileMapOf(arg.blob.obj.files)
             /\ Range(arg'.packages) \subseteq PackageSetOf(after)]_vars

(* ---------------- claims: recovery and scraping -------------------------- *)

\* C21: a failure of the preview restart is not fatal: when the files were
\* applied and the restart call answered with an error or was rejected, the
\* result is success with the restored file and package counts.
C21_RestartFailureNotFatal ==
    (restore.pc = "done" /\ restore.restarted \in {"not ok", "rejected"})
        => /\ restore.result.success
           /\ restore.result.filesRestored = Len(restore.body.files.items)
           /\ restore.result.packagesRestored
                = Len(restore.body.packages.items)

\* C22: every call to an external API has a bounded wait: a recovery or a
\* scrape that is waiting for the API ends with a response.
C22_BoundedWait ==
    /\ (restore.pc \in {"apply", "reading", "restart"}) ~> (restore.pc = "done")
    /\ (scrape.pc = "firecrawl") ~> (scrape.pc = "done")

\* What the route sees of an apply step that failed.
ApplyFailures == {"not ok", "rejected", "stream error", "unparseable"}

\* The error texts the route returns when the restart call fails.
RestartErrors == {FetchRejected}

\* C25: the pipeline stops at the first failing step: when applying the
\* files failed, the restart was never requested and the result is a
\* failure whose error is none that a failed restart gives as well.
C25_StopsAtFailedApply ==
    (restore.pc = "done" /\ restore.applied \in ApplyFailures)
        => /\ "restart" \notin Range(restore.calls)
           /\ ~restore.result.success
           /\ restore.result.status >= 400
           /\ restore.result.error # ""
           /\ restore.result.error \notin RestartErrors

\* C26: a recover request without a files array or without a sandboxId is
\* answered with a failure that names what is missing, before any call to
\* the apply or the restart API.
C26_FailsFast ==
    (/\ restore.pc # "idle"
     /\ \/ restore.body.files.kind # "array"
        \/ restore.body.sandboxId = NoSandbox)
        => /\ restore.pc = "done"
           /\ restore.calls = <<>>
           /\ ~restore.result.success
           /\ restore.result.status = 400
           /\ restore.result.error
                = IF restore.body.files.kind # "array"
                  THEN "Files array is required"
                  ELSE "Sandbox ID is required"

\* C26 witness: a request with files to restore and no sandboxId was
\* answered.
C26_Witness ==
    /\ op = "restore"
    /\ restore.pc = "done"
    /\ restore.body.files.kind = "array"
    /\ restore.body.files.items # <<>>
    /\ restore.body.sandboxId = NoSandbox

\* C28: recover reports success only if completion of the apply step was
\* observed: a complete event or a parseable result that is no stream.
C28_SuccessOnlyAfterCompletion ==
    (restore.pc = "done" /\ restore.result.success)
        => restore.applied \in {"complete event", "json result"}

====
